---------------------------- MODULE Spec2Model ----------------------------
(***************************************************************************)
(* RemindMe: the reminder scheduling and consolidation engine.             *)
(*                                                                         *)
(* Modelled from app/index.jsx (the mutation handlers and init),           *)
(* utils/notificationScheduler (the regular channel: filter, grouping,     *)
(* consolidated content, triggers, full resync, targeted cancel) and       *)
(* utils/intrusiveAlarmManager (the intrusive channel).                    *)
(*                                                                         *)
(* Time.  An instant is a number of milliseconds since the model's epoch,  *)
(* which is local midnight of a Sunday that is the 1st of a month; the     *)
(* device's zone has no offset and no daylight saving switch in the        *)
(* modelled days, so local and UTC fields agree.                           *)
(*                                                                         *)
(* Payload fields that only steer presentation (title, channelId, sound,   *)
(* priority, badge) are left out of the job records.                       *)
(***************************************************************************)
EXTENDS Integers, Sequences, FiniteSets, TLC

VARIABLES
    store,      \* SecureStore key "items": [present, list]
    regJobs,    \* expo-notifications: the scheduled notifications, in order
    intJobs,    \* expo-alarm-module: the set of registered alarms
    now,        \* the device clock
    pc,         \* position of the handler in flight ("idle" when none)
    act,        \* the locals of the handler in flight
    log,        \* the store and backend calls of the handler in flight
    pass,       \* the last full resync pass that returned or threw
    faults      \* the backend calls that have thrown so far

vars == <<store, regJobs, intJobs, now, pc, act, log, pass, faults>>

---------------------------------------------------------------------------
(* Bounds *)

\* longest reminder list a resync is drawn
MaxReminders == 2

\* longest reminder list the user builds
MaxStored == 1

\* backend calls that throw in one run of the app
MaxFaults == 1

\* handler invocations that can be pending at once
MaxUnits == 2

\* presses of Save and Delete in one run of overlapping handlers
MaxPresses == 2

---------------------------------------------------------------------------
(* Date *)

\* new Date(y, m, 1 + d, h, mi): day d (0 = the epoch Sunday), h:mi local
At(d, h, mi) == ((d * 24 + h) * 60 + mi) * 60000

\* the same with seconds and milliseconds
AtMs(d, h, mi, s, ms) == At(d, h, mi) + s * 1000 + ms

DayOf(t) == t \div 86400000

\* Date.prototype.getDay: 0 = Sunday .. 6 = Saturday
getDay(t) == DayOf(t) % 7

\* Date.prototype.getDate: day of the month, 1-based (a 31-day month)
getDate(t) == (DayOf(t) % 31) + 1

getHours(t) == (t \div 3600000) % 24

getMinutes(t) == (t \div 60000) % 60

\* Date.prototype.setHours(h, mi, s): the milliseconds are kept
setHours3(t, h, mi, s) == DayOf(t) * 86400000 + (h * 60 + mi) * 60000 + s * 1000 + (t % 1000)

\* Date.prototype.setHours(h, mi, s, ms)
setHours4(t, h, mi, s, ms) == DayOf(t) * 86400000 + (h * 60 + mi) * 60000 + s * 1000 + ms

\* d.setDate(d.getDate() + n)
addDays(t, n) == t + n * 86400000

\* d.setDate(1), inside the modelled month
setDateFirst(t) == t - (getDate(t) - 1) * 86400000

\* Date.prototype.toISOString: the UTC calendar day and the time of day to the
\* millisecond, as text; here its two parts
toISOString(t) == [date |-> DayOf(t), time |-> t % 86400000]

\* new Date(isoString)
parseISO(iso) == iso.date * 86400000 + iso.time

---------------------------------------------------------------------------
(* Reminder records *)

\* reminder.timer undefined
NoTimer == -1

\* reminder.recurring: null is "none"
Recurrences == {"none", "daily", "weekly", "monthly"}

Reminder(id, message, timer, isIntrusive, recurring) ==
    [id |-> id, message |-> message, timer |-> timer,
     isIntrusive |-> isIntrusive, intrusive |-> FALSE, recurring |-> recurring]

HasTimer(r) == r.timer # NoTimer

Range(s) == {s[i] : i \in DOMAIN s}

IdsOf(s) == {s[i].id : i \in DOMAIN s}

---------------------------------------------------------------------------
(* notificationScheduler: the regular channel *)

\* reminder absent from a payload's data
NoId == 0

\* RegularFilter without its first test: intrusive reminders pass
RegularFilter_KeepingIntrusive(r, nw) ==
    IF r.recurring # "none" THEN TRUE
    ELSE IF HasTimer(r) THEN r.timer > nw
    ELSE FALSE

\* the admission filter of scheduleAllRegularNotifications; nw is its `now`
RegularFilter(r, nw) ==
    IF r.isIntrusive \/ r.intrusive THEN FALSE
    ELSE IF r.recurring # "none" THEN TRUE
    ELSE IF HasTimer(r) THEN r.timer > nw
    ELSE FALSE

\* a push that opens an array of its own for every reminder
PushToGroup_AlwaysNew(bucket, key, r) ==
    Append(bucket, [key |-> key, members |-> <<r>>])

\* groups[type][timeKey].push(reminder), creating the key's array when it is
\* missing; a bucket is the sequence of its entries in insertion order, the
\* order Object.entries walks
PushToGroup(bucket, key, r) ==
    IF \E i \in DOMAIN bucket : bucket[i].key = key
    THEN [i \in DOMAIN bucket |->
            IF bucket[i].key = key
            THEN [bucket[i] EXCEPT !.members = Append(@, r)]
            ELSE bucket[i]]
    ELSE Append(bucket, [key |-> key, members |-> <<r>>])

\* a weekly default that stays on the day of the call
WeeklyReminderTime_Today(r, clk) ==
    IF HasTimer(r) THEN r.timer ELSE setHours4(clk, 9, 0, 0, 0)

\* a monthly default that stays on the day of the call
MonthlyReminderTime_Today(r, clk) ==
    IF HasTimer(r) THEN r.timer ELSE setHours4(clk, 9, 0, 0, 0)

\* the weekly branch's reminderTime; clk is its `new Date()`
WeeklyReminderTime(r, clk) ==
    IF HasTimer(r) THEN r.timer
    ELSE setHours4(addDays(clk, (7 - getDay(clk)) % 7), 9, 0, 0, 0)

\* the monthly branch's reminderTime
MonthlyReminderTime(r, clk) ==
    IF HasTimer(r) THEN r.timer
    ELSE setHours4(setDateFirst(clk), 9, 0, 0, 0)

\* one iteration of the forEach of groupRemindersByTimeAndType
GroupOne(groups, r, clk) ==
    IF r.recurring = "daily" THEN
        LET key == IF HasTimer(r)
                   THEN <<getHours(r.timer), getMinutes(r.timer)>>
                   ELSE <<9, 0>>
        IN  [groups EXCEPT !.daily = PushToGroup(@, key, r)]
    ELSE IF r.recurring = "weekly" THEN
        LET t == WeeklyReminderTime(r, clk)
            key == <<getDay(t), getHours(t), getMinutes(t)>>
        IN  [groups EXCEPT !.weekly = PushToGroup(@, key, r)]
    ELSE IF r.recurring = "monthly" THEN
        LET t == MonthlyReminderTime(r, clk)
            key == <<getDate(t), getHours(t), getMinutes(t)>>
        IN  [groups EXCEPT !.monthly = PushToGroup(@, key, r)]
    ELSE IF HasTimer(r) THEN
        IF r.timer > clk
        THEN [groups EXCEPT !.oneTime = PushToGroup(@, toISOString(r.timer), r)]
        ELSE groups
    ELSE groups

RECURSIVE GroupFrom(_, _, _, _)
GroupFrom(groups, reminders, clocks, i) ==
    IF i > Len(reminders) THEN groups
    ELSE GroupFrom(GroupOne(groups, reminders[i], clocks[i]), reminders, clocks, i + 1)

\* groupRemindersByTimeAndType; clocks[i] is the clock the i-th iteration reads
groupRemindersByTimeAndType(reminders, clocks) ==
    GroupFrom([daily |-> <<>>, weekly |-> <<>>, monthly |-> <<>>, oneTime |-> <<>>],
              reminders, clocks, 1)

\* createConsolidatedContent returning baseContent for every group size
createConsolidatedContent_BaseOnly(reminders) ==
    [body |-> <<[n |-> 0, text |-> reminders[1].message]>>,
     data |-> [type |-> "single", reminderId |-> reminders[1].id,
               reminderIds |-> <<>>, count |-> 0]]

\* createConsolidatedContent: body and data of the payload; a body is its
\* lines, each the number it is prefixed with (0: no prefix) and the message
createConsolidatedContent(reminders) ==
    IF Len(reminders) = 1
    THEN [body |-> <<[n |-> 0, text |-> reminders[1].message]>>,
          data |-> [type |-> "single", reminderId |-> reminders[1].id,
                    reminderIds |-> <<>>, count |-> 0]]
    ELSE [body |-> [i \in DOMAIN reminders |-> [n |-> i, text |-> reminders[i].message]],
          data |-> [type |-> "consolidated", reminderId |-> NoId,
                    reminderIds |-> [i \in DOMAIN reminders |-> reminders[i].id],
                    count |-> Len(reminders)]]

\* the weekday of the WEEKLY trigger, from the key's getDay value
WeekdayOfKey(weekday) ==
    IF (weekday + 1) % 7 = 0 THEN 1 ELSE (weekday + 1) % 7

\* the trigger scheduleConsolidatedNotification builds from the time key;
\* fields a trigger type does not have are 0
TriggerOf(type, timeKey) ==
    IF type = "daily" THEN
        [type |-> "daily", hour |-> timeKey[1], minute |-> timeKey[2],
         weekday |-> 0, day |-> 0, date |-> 0, seconds |-> 0]
    ELSE IF type = "weekly" THEN
        [type |-> "weekly", hour |-> timeKey[2], minute |-> timeKey[3],
         weekday |-> WeekdayOfKey(timeKey[1]), day |-> 0, date |-> 0, seconds |-> 0]
    ELSE IF type = "monthly" THEN
        [type |-> "monthly", hour |-> timeKey[2], minute |-> timeKey[3],
         weekday |-> 0, day |-> timeKey[1], date |-> 0, seconds |-> 0]
    ELSE
        [type |-> "date", hour |-> 0, minute |-> 0,
         weekday |-> 0, day |-> 0, date |-> parseISO(timeKey), seconds |-> 0]

\* scheduleConsolidatedNotification without its look at the clock
scheduleConsolidatedNotification_NoExpiryCheck(jobs, reminders, timeKey, type, clk, fails) ==
    IF fails THEN jobs
    ELSE Append(jobs, [body |-> createConsolidatedContent(reminders).body,
                       data |-> createConsolidatedContent(reminders).data,
                       trigger |-> TriggerOf(type, timeKey)])

\* scheduleConsolidatedNotification: the scheduled notifications after the
\* call; clk is the clock it reads, fails whether scheduleNotificationAsync
\* throws (caught: the function returns null)
scheduleConsolidatedNotification(jobs, reminders, timeKey, type, clk, fails) ==
    LET content == createConsolidatedContent(reminders)
        trigger == TriggerOf(type, timeKey)
    IN  IF type = "oneTime" /\ trigger.date <= clk THEN jobs
        ELSE IF fails THEN jobs
        ELSE Append(jobs, [body |-> content.body, data |-> content.data,
                           trigger |-> trigger])

\* the four for-loops of scheduleAllRegularNotifications as one list of
\* (type, key, members), in the order they run
GroupList(groups) ==
    [i \in DOMAIN groups.daily |->
        [type |-> "daily", key |-> groups.daily[i].key, members |-> groups.daily[i].members]]
    \o [i \in DOMAIN groups.weekly |->
        [type |-> "weekly", key |-> groups.weekly[i].key, members |-> groups.weekly[i].members]]
    \o [i \in DOMAIN groups.monthly |->
        [type |-> "monthly", key |-> groups.monthly[i].key, members |-> groups.monthly[i].members]]
    \o [i \in DOMAIN groups.oneTime |->
        [type |-> "oneTime", key |-> groups.oneTime[i].key, members |-> groups.oneTime[i].members]]

\* the group loops giving up at the first registration that throws
RECURSIVE ScheduleFrom_AbortOnFailure(_, _, _, _, _)
ScheduleFrom_AbortOnFailure(jobs, glist, clocks, failIds, i) ==
    IF i > Len(glist) \/ glist[i].members[1].id \in failIds THEN jobs
    ELSE ScheduleFrom_AbortOnFailure(
            scheduleConsolidatedNotification(jobs, glist[i].members, glist[i].key,
                glist[i].type, clocks[i], FALSE),
            glist, clocks, failIds, i + 1)

RECURSIVE ScheduleFrom(_, _, _, _, _)
ScheduleFrom(jobs, glist, clocks, failIds, i) ==
    IF i > Len(glist) THEN jobs
    ELSE ScheduleFrom(
            scheduleConsolidatedNotification(jobs, glist[i].members, glist[i].key,
                glist[i].type, clocks[i], glist[i].members[1].id \in failIds),
            glist, clocks, failIds, i + 1)

\* the clock readings of one pass over n reminders: cs[1] is the filter's
\* `now`, cs[1 + i] the reading of the i-th per-reminder step, cs[1 + n + j]
\* the reading of the j-th registration
ReadingsFrom(cs, first, n) == [i \in 1..n |-> cs[first + i]]

\* scheduleAllRegularNotifications without the cancel-all: the new jobs are
\* added to the ones already scheduled
scheduleAllRegularNotifications_NoCancel(jobs, reminders, cs, f) ==
    LET nonIntrusive == SelectSeq(reminders, LAMBDA r : RegularFilter(r, cs[1]))
        groups == groupRemindersByTimeAndType(nonIntrusive, ReadingsFrom(cs, 1, Len(reminders)))
    IN  IF nonIntrusive = <<>> THEN [jobs |-> jobs, threw |-> FALSE]
        ELSE [jobs |-> ScheduleFrom(jobs, GroupList(groups),
                                    ReadingsFrom(cs, 1 + Len(reminders), Len(reminders)),
                                    f.schedule, 1),
              threw |-> FALSE]

\* scheduleAllRegularNotifications: [jobs, threw].  f.cancelAll: whether
\* cancelAllScheduledNotificationsAsync throws (rethrown by the catch);
\* f.schedule: the reminders whose group's registration throws
scheduleAllRegularNotifications(jobs, reminders, cs, f) ==
    IF f.cancelAll THEN [jobs |-> jobs, threw |-> TRUE]
    ELSE
        LET nonIntrusive == SelectSeq(reminders, LAMBDA r : RegularFilter(r, cs[1]))
            groups == groupRemindersByTimeAndType(nonIntrusive, ReadingsFrom(cs, 1, Len(reminders)))
            glist == GroupList(groups)
        IN  IF nonIntrusive = <<>> THEN [jobs |-> <<>>, threw |-> FALSE]
            ELSE [jobs |-> ScheduleFrom(<<>>, glist,
                                        ReadingsFrom(cs, 1 + Len(reminders), Len(reminders)),
                                        f.schedule, 1),
                  threw |-> FALSE]

\* scheduleConfirmationNotification: the scheduled notifications after the
\* call; fails: scheduleNotificationAsync throws (caught, returns null)
scheduleConfirmationNotification(jobs, reminder, fails) ==
    IF reminder.recurring \notin {"daily", "weekly", "monthly"} THEN jobs
    ELSE IF fails THEN jobs
    ELSE Append(jobs,
            [body |-> <<[n |-> 0, text |-> reminder.message]>>,
             data |-> [type |-> "confirmation", reminderId |-> reminder.id,
                       reminderIds |-> <<>>, count |-> 0],
             trigger |-> [type |-> "timeInterval", hour |-> 0, minute |-> 0,
                          weekday |-> 0, day |-> 0, date |-> 0, seconds |-> 3]])

\* whether a scheduled notification's data names the reminder
JobNames(job, id) ==
    job.data.reminderId = id \/ \E i \in DOMAIN job.data.reminderIds : job.data.reminderIds[i] = id

\* cancelRegularNotification matching the single reminderId only
cancelRegularNotification_SingleOnly(jobs, id, fails) ==
    IF fails THEN jobs ELSE SelectSeq(jobs, LAMBDA j : j.data.reminderId # id)

\* cancelRegularNotification: the scheduled notifications after the call.
\* fails: getAllScheduledNotificationsAsync throws (caught, nothing cancelled)
cancelRegularNotification(jobs, id, fails) ==
    IF fails THEN jobs ELSE SelectSeq(jobs, LAMBDA j : ~JobNames(j, id))

---------------------------------------------------------------------------
(* intrusiveAlarmManager: the intrusive channel *)

\* scheduleAlarm(alarm): a uid names one alarm of the module
scheduleAlarm(alarms, alarm) ==
    {a \in alarms : a.uid # alarm.uid} \cup {alarm}

\* removeAlarm(uid)
removeAlarm(alarms, uid) == {a \in alarms : a.uid # uid}

\* scheduleIntrusiveAlarm taking every recurrence for a daily one
scheduleIntrusiveAlarm_AnyRecurrence(alarms, reminder, clk, fails) ==
    LET isDaily == reminder.recurring # "none"
        hasTimer == HasTimer(reminder)
        alarmTime ==
            IF hasTimer
            THEN setHours3(addDays(clk, 1), getHours(reminder.timer),
                           getMinutes(reminder.timer), 0)
            ELSE addDays(clk, 1)
    IN  IF ~reminder.isIntrusive \/ ~isDaily \/ fails THEN alarms
        ELSE scheduleAlarm(alarms, [uid |-> reminder.id, day |-> alarmTime,
                                    description |-> reminder.message,
                                    repeating |-> isDaily])

\* scheduleIntrusiveAlarm without its refusal of a reminder that has neither
\* a daily recurrence nor a timer
scheduleIntrusiveAlarm_BareAccepted(alarms, reminder, clk, fails) ==
    LET isDaily == reminder.recurring = "daily"
        hasTimer == HasTimer(reminder)
        alarmTime ==
            IF isDaily
            THEN IF hasTimer
                 THEN setHours3(addDays(clk, 1), getHours(reminder.timer),
                                getMinutes(reminder.timer), 0)
                 ELSE addDays(clk, 1)
            ELSE reminder.timer
    IN  IF ~reminder.isIntrusive THEN alarms
        ELSE IF ~isDaily /\ hasTimer /\ alarmTime < clk THEN alarms
        ELSE IF fails THEN alarms
        ELSE scheduleAlarm(alarms, [uid |-> reminder.id, day |-> alarmTime,
                                    description |-> reminder.message,
                                    repeating |-> isDaily])

\* scheduleIntrusiveAlarm starting a daily alarm on the day of the call
\* when its time of day is still ahead
scheduleIntrusiveAlarm_TodayIfAhead(alarms, reminder, clk, fails) ==
    LET isDaily == reminder.recurring = "daily"
        hasTimer == HasTimer(reminder)
        today == setHours3(clk, getHours(reminder.timer), getMinutes(reminder.timer), 0)
        alarmTime ==
            IF isDaily
            THEN IF hasTimer
                 THEN IF today > clk THEN today ELSE addDays(today, 1)
                 ELSE addDays(clk, 1)
            ELSE reminder.timer
    IN  IF ~reminder.isIntrusive THEN alarms
        ELSE IF ~isDaily /\ ~hasTimer THEN alarms
        ELSE IF ~isDaily /\ alarmTime < clk THEN alarms
        ELSE IF fails THEN alarms
        ELSE scheduleAlarm(alarms, [uid |-> reminder.id, day |-> alarmTime,
                                    description |-> reminder.message,
                                    repeating |-> isDaily])

\* scheduleIntrusiveAlarm: the registered alarms after the call; clk is the
\* clock it reads, fails whether scheduleAlarm throws (caught)
scheduleIntrusiveAlarm(alarms, reminder, clk, fails) ==
    LET isDaily == reminder.recurring = "daily"
        hasTimer == HasTimer(reminder)
        alarmTime ==
            IF isDaily
            THEN IF hasTimer
                 THEN setHours3(addDays(clk, 1), getHours(reminder.timer),
                                getMinutes(reminder.timer), 0)
                 ELSE addDays(clk, 1)
            ELSE reminder.timer
    IN  IF ~reminder.isIntrusive THEN alarms
        ELSE IF ~isDaily /\ ~hasTimer THEN alarms
        ELSE IF ~isDaily /\ alarmTime < clk THEN alarms
        ELSE IF fails THEN alarms
        ELSE scheduleAlarm(alarms, [uid |-> reminder.id, day |-> alarmTime,
                                    description |-> reminder.message,
                                    repeating |-> isDaily])

\* cancelIntrusiveAlarm: fails whether removeAlarm throws (caught)
cancelIntrusiveAlarm(alarms, id, fails) ==
    IF fails THEN alarms ELSE removeAlarm(alarms, id)

\* IntrusiveFilter that also refuses a timer equal to now
IntrusiveFilter_RefusingNow(r, nw) ==
    IF ~r.isIntrusive THEN FALSE
    ELSE IF r.recurring = "daily" THEN TRUE
    ELSE IF HasTimer(r) /\ r.timer <= nw THEN FALSE
    ELSE TRUE

\* the admission filter of rescheduleAllIntrusiveAlarms; nw is its `now`
IntrusiveFilter(r, nw) ==
    IF ~r.isIntrusive THEN FALSE
    ELSE IF r.recurring = "daily" THEN TRUE
    ELSE IF HasTimer(r) /\ r.timer < nw THEN FALSE
    ELSE TRUE

RECURSIVE AlarmsFrom(_, _, _, _, _)
AlarmsFrom(alarms, reminders, clocks, failIds, i) ==
    IF i > Len(reminders) THEN alarms
    ELSE AlarmsFrom(
            scheduleIntrusiveAlarm(alarms, reminders[i], clocks[i],
                                   reminders[i].id \in failIds),
            reminders, clocks, failIds, i + 1)

\* rescheduleAllIntrusiveAlarms: the registered alarms after the call (it
\* catches everything).  f.list: getAllAlarms throws; f.kept: the alarms
\* still registered when a removeAlarm of the loop throws ({}: none does);
\* f.schedule: the reminders whose scheduleAlarm throws
rescheduleAllIntrusiveAlarms(alarms, reminders, cs, f) ==
    IF f.list THEN alarms
    ELSE IF f.kept # {} THEN f.kept
    ELSE LET intrusiveReminders ==
                SelectSeq(reminders, LAMBDA r : IntrusiveFilter(r, cs[1]))
         IN  AlarmsFrom({}, intrusiveReminders, ReadingsFrom(cs, 1, Len(reminders)),
                        f.schedule, 1)

---------------------------------------------------------------------------
(* The environment: clock and backend failures *)

\* the instants `new Date()` returns in the model
ClockValues == {At(9, 10, 0), At(9, 11, 0)}

\* the readings of one pass over n reminders that starts at `from`: the
\* clock never goes back
Readings(from, n) ==
    {cs \in [1..(1 + 2 * n) -> {c \in ClockValues : c >= from}] :
        \A i \in 1..(2 * n) : cs[i] <= cs[i + 1]}

Steady(cs) == \A i \in DOMAIN cs : cs[i] = cs[1]

\* the readings of a pass over n reminders during which the clock shows t
SteadyReadings(t, n) == {[i \in 1..(1 + 2 * n) |-> t]}

\* what the regular backend may do in one full resync over `reminders`
RegularFailures(reminders) ==
    {f \in [cancelAll : BOOLEAN, schedule : SUBSET IdsOf(reminders)] :
        f.cancelAll => f.schedule = {}}

\* what the intrusive backend may do in one full resync
IntrusiveFailures(alarms, reminders) ==
    {f \in [list : BOOLEAN, kept : SUBSET alarms, schedule : SUBSET IdsOf(reminders)] :
        (f.list \/ f.kept # {}) => (f.schedule = {} /\ ~(f.list /\ f.kept # {}))}

RegularClean(f) == ~f.cancelAll /\ f.schedule = {}

IntrusiveClean(f) == ~f.list /\ f.kept = {} /\ f.schedule = {}

NoPass ==
    [kind |-> "none", list |-> <<>>, at |-> 0, steady |-> TRUE, clean |-> TRUE,
     threw |-> FALSE, failed |-> {}]

\* one call of scheduleAllRegularNotifications(reminders), start to end;
\* readings: the clock readings it may get; mayFail: whether the backend may
\* throw in it
RegularPass(reminders, readings, mayFail) ==
    \E cs \in readings,
       f \in {g \in RegularFailures(reminders) : mayFail \/ RegularClean(g)} :
        LET res == scheduleAllRegularNotifications(regJobs, reminders, cs, f)
        IN  /\ regJobs' = res.jobs
            /\ now' = cs[Len(cs)]
            /\ pass' = [kind |-> "regular", list |-> reminders, at |-> cs[1],
                        steady |-> Steady(cs), clean |-> RegularClean(f),
                        threw |-> res.threw, failed |-> f.schedule]

\* one call of rescheduleAllIntrusiveAlarms(reminders), start to end
IntrusivePass(reminders, readings, mayFail) ==
    \E cs \in readings,
       f \in {g \in IntrusiveFailures(intJobs, reminders) : mayFail \/ IntrusiveClean(g)} :
        /\ intJobs' = rescheduleAllIntrusiveAlarms(intJobs, reminders, cs, f)
        /\ now' = cs[Len(cs)]
        /\ pass' = [kind |-> "intrusive", list |-> reminders, at |-> cs[1],
                    steady |-> Steady(cs), clean |-> IntrusiveClean(f),
                    threw |-> FALSE, failed |-> f.schedule]

---------------------------------------------------------------------------
(* app/index.jsx: init and the mutation handlers, one in flight at a time *)

Kinds(timers, intrusive, recurrences) ==
    [timer : timers, isIntrusive : intrusive, recurring : recurrences]

NoReminder == Reminder(NoId, <<>>, NoTimer, FALSE, "none")

NoInput == [message |-> <<>>, alarmType |-> "reminder", reminderType |-> "one-off",
            selectedTime |-> NoTimer]

NoAct ==
    [kind |-> "none", target |-> NoReminder, input |-> NoInput, data |-> NoReminder,
     before |-> <<>>, reminders |-> <<>>, todo |-> <<>>, outcome |-> "none",
     faulted |-> FALSE]

\* String.prototype.trim on a message given as its characters
RECURSIVE trimStart(_)
trimStart(m) == IF m # <<>> /\ Head(m) = " " THEN trimStart(Tail(m)) ELSE m

RECURSIVE trimEnd(_)
trimEnd(m) ==
    IF m # <<>> /\ m[Len(m)] = " " THEN trimEnd(SubSeq(m, 1, Len(m) - 1)) ELSE m

\* a trim that leaves the message as it is
trim_Nothing(m) == m

trim(m) == trimEnd(trimStart(m))

\* what the user enters in the ReminderModal
AppTimers == {At(9, 10, 0), At(10, 9, 0)}

SaveInputs ==
    [message : {<<" ">>, <<"a", " ">>}, alarmType : {"reminder", "alarm"},
     reminderType : {"one-off", "daily"}, selectedTime : AppTimers]

\* the ids uid() can return in the model
IdPool == 1..MaxStored

UsedIds ==
    IdsOf(store.list) \cup {id \in IdPool : \E j \in DOMAIN regJobs : JobNames(regJobs[j], id)}
        \cup {a.uid : a \in intJobs}

\* uid(): an id that names nothing yet
uid == CHOOSE id \in IdPool \ UsedIds : \A other \in IdPool \ UsedIds : id <= other

\* handleSaveReminder confirming an edit to a recurring reminder too
SaveFlow_ConfirmingEdits(editing, recurring) ==
    IF editing /\ recurring
    THEN <<"read", "write", "cancel", "intrusive", "regular", "confirm">>
    ELSE IF editing THEN <<"read", "write", "cancel", "intrusive", "regular">>
    ELSE IF recurring THEN <<"read", "write", "intrusive", "regular", "confirm">>
    ELSE <<"read", "write", "intrusive", "regular">>

\* the steps of handleSaveReminder after its validation, in the order of
\* its awaits
SaveFlow(editing, recurring) ==
    IF editing THEN <<"read", "write", "cancel", "intrusive", "regular">>
    ELSE IF recurring THEN <<"read", "write", "intrusive", "regular", "confirm">>
    ELSE <<"read", "write", "intrusive", "regular">>

\* handleDeleteReminder touching the store only
DeleteFlow_StoreOnly == <<"read", "write">>

\* handleDeleteReminder without its triggerNotifications
DeleteFlow_NoResync == <<"cancel", "read", "write">>

\* the steps of handleDeleteReminder
DeleteFlow == <<"cancel", "read", "write", "intrusive", "regular">>

\* init resyncing the regular channel only
InitFlow_RegularOnly == <<"regular">>

\* the steps of init after it has loaded a list
InitFlow == <<"intrusive", "regular">>

\* cancelNotifs with targeted cancels that let the backend's error through
cancelNotifsThrows_Uncaught(fails) == fails

\* whether cancelNotifs throws into its caller: both targeted cancels catch
cancelNotifsThrows(fails) == FALSE

\* scheduleConfirmationNotification letting the backend's error through
scheduleConfirmationNotificationThrows_Uncaught(fails) == fails

\* whether scheduleConfirmationNotification throws into its caller: its
\* catch logs the error and returns null
scheduleConfirmationNotificationThrows(fails) == FALSE

\* the handler goes on to its next step, or returns
Proceed(a) ==
    IF Len(a.todo) > 1
    THEN [a EXCEPT !.todo = Tail(@)]
    ELSE [a EXCEPT !.todo = <<>>, !.outcome = "done"]

\* the handler's catch block, or for init the rejection of its promise
Abort(a) == [a EXCEPT !.todo = <<>>, !.outcome = "error"]

PcOf(a) == IF a.todo = <<>> THEN "done" ELSE Head(a.todo)

MayFail == faults < MaxFaults

Count(failed) == IF failed THEN faults + 1 ELSE faults

\* init up to its SecureStore read
Boot ==
    /\ pc = "boot"
    /\ act' = IF store.present
              THEN [NoAct EXCEPT !.kind = "init", !.before = store.list,
                                 !.reminders = store.list, !.todo = InitFlow,
                                 !.outcome = "pending"]
              ELSE [NoAct EXCEPT !.kind = "init", !.outcome = "done"]
    /\ pc' = PcOf(act')
    /\ log' = <<"read">>
    /\ UNCHANGED <<store, regJobs, intJobs, now, pass, faults>>

\* handleSaveReminder up to its SecureStore read; editing is editingReminder
SaveBegin(input, editing) ==
    /\ pc = "idle"
    /\ editing = NoReminder => Len(store.list) < MaxStored /\ IdPool \ UsedIds # {}
    /\ LET kind == IF editing = NoReminder THEN "create" ELSE "edit"
       IN  act' = IF trim(input.message) = <<>>
                  THEN [NoAct EXCEPT !.kind = kind, !.target = editing, !.input = input,
                                     !.outcome = "rejected"]
                  ELSE [NoAct EXCEPT !.kind = kind, !.target = editing, !.input = input,
                                     !.todo = SaveFlow(editing # NoReminder,
                                                       input.reminderType # "one-off"),
                                     !.outcome = "pending"]
    /\ pc' = PcOf(act')
    /\ log' = <<>>
    /\ UNCHANGED <<store, regJobs, intJobs, now, pass, faults>>

\* handleDeleteReminder up to its cancelNotifs; selected is
\* selectedActionReminder
DeleteBegin(selected) ==
    /\ pc = "idle"
    /\ act' = [NoAct EXCEPT !.kind = "delete", !.target = selected, !.todo = DeleteFlow,
                            !.outcome = "pending"]
    /\ pc' = PcOf(act')
    /\ log' = <<>>
    /\ UNCHANGED <<store, regJobs, intJobs, now, pass, faults>>

\* reminders[index] = reminderData where index is the first with the id
ReplaceById(reminders, id, data) ==
    IF \E i \in DOMAIN reminders : reminders[i].id = id
    THEN LET index == CHOOSE i \in DOMAIN reminders :
                        /\ reminders[i].id = id
                        /\ \A j \in DOMAIN reminders : reminders[j].id = id => i <= j
         IN  [reminders EXCEPT ![index] = data]
    ELSE reminders

\* the reminderData of handleSaveReminder
ReminderData(input, editing) ==
    Reminder(IF editing = NoReminder THEN uid ELSE editing.id,
             trim(input.message), input.selectedTime, input.alarmType = "alarm",
             IF input.reminderType = "one-off" THEN "none" ELSE input.reminderType)

\* the SecureStore read of a mutation handler and the change it applies to
\* the list it read
StepRead ==
    /\ pc = "read"
    /\ LET reminders == IF store.present THEN store.list ELSE <<>>
           data == ReminderData(act.input, act.target)
           changed ==
                IF act.kind = "delete"
                THEN SelectSeq(reminders, LAMBDA r : r.id # act.target.id)
                ELSE IF act.kind = "edit"
                THEN ReplaceById(reminders, act.target.id, data)
                ELSE Append(reminders, data)
       IN  act' = [Proceed(act) EXCEPT
                        !.before = reminders,
                        !.data = IF act.kind = "delete" THEN NoReminder ELSE data,
                        !.reminders = changed]
    /\ pc' = PcOf(act')
    /\ log' = Append(log, "read")
    /\ UNCHANGED <<store, regJobs, intJobs, now, pass, faults>>

\* SecureStore.setItemAsync("items", JSON.stringify(reminders))
StepWrite ==
    /\ pc = "write"
    /\ store' = [present |-> TRUE, list |-> act.reminders]
    /\ act' = Proceed(act)
    /\ pc' = PcOf(act')
    /\ log' = Append(log, "write")
    /\ UNCHANGED <<regJobs, intJobs, now, pass, faults>>

\* cancelNotifs(reminder) of the edited or deleted reminder
StepCancel ==
    /\ pc = "cancel"
    /\ \E fails \in {x \in BOOLEAN : x => MayFail} :
        /\ IF act.target.isIntrusive
           THEN /\ intJobs' = cancelIntrusiveAlarm(intJobs, act.target.id, fails)
                /\ UNCHANGED regJobs
           ELSE /\ regJobs' = cancelRegularNotification(regJobs, act.target.id, fails)
                /\ UNCHANGED intJobs
        /\ act' = [(IF cancelNotifsThrows(fails) THEN Abort(act) ELSE Proceed(act))
                        EXCEPT !.faulted = @ \/ fails]
        /\ faults' = Count(fails)
    /\ pc' = PcOf(act')
    /\ log' = Append(log, "cancel")
    /\ UNCHANGED <<store, now, pass>>

\* an intrusive resync that cancels the scheduled notifications as well
StepIntrusive_CancellingNotifications ==
    /\ pc = "intrusive"
    /\ IntrusivePass(act.reminders, SteadyReadings(now, Len(act.reminders)), MayFail)
    /\ act' = [Proceed(act) EXCEPT !.faulted = @ \/ ~pass'.clean]
    /\ faults' = Count(~pass'.clean)
    /\ pc' = PcOf(act')
    /\ log' = Append(log, "intrusive")
    /\ regJobs' = <<>>
    /\ UNCHANGED store

\* await rescheduleAllIntrusiveAlarms(reminders)
StepIntrusive ==
    /\ pc = "intrusive"
    /\ IntrusivePass(act.reminders, SteadyReadings(now, Len(act.reminders)), MayFail)
    /\ act' = [Proceed(act) EXCEPT !.faulted = @ \/ ~pass'.clean]
    /\ faults' = Count(~pass'.clean)
    /\ pc' = PcOf(act')
    /\ log' = Append(log, "intrusive")
    /\ UNCHANGED <<store, regJobs>>

\* await scheduleAllRegularNotifications(reminders)
StepRegular ==
    /\ pc = "regular"
    /\ RegularPass(act.reminders, SteadyReadings(now, Len(act.reminders)), MayFail)
    /\ act' = [(IF pass'.threw THEN Abort(act) ELSE Proceed(act))
                    EXCEPT !.faulted = @ \/ ~pass'.clean]
    /\ faults' = Count(~pass'.clean)
    /\ pc' = PcOf(act')
    /\ log' = Append(log, "regular")
    /\ UNCHANGED <<store, intJobs>>

\* await scheduleConfirmationNotification(reminderData)
StepConfirm ==
    /\ pc = "confirm"
    /\ \E fails \in {x \in BOOLEAN : x => MayFail} :
        /\ regJobs' = scheduleConfirmationNotification(regJobs, act.data, fails)
        /\ act' = [(IF scheduleConfirmationNotificationThrows(fails)
                     THEN Abort(act) ELSE Proceed(act))
                        EXCEPT !.faulted = @ \/ fails]
        /\ faults' = Count(fails)
    /\ pc' = PcOf(act')
    /\ log' = Append(log, "confirm")
    /\ UNCHANGED <<store, intJobs, now, pass>>

\* the handler has returned: its locals are gone
Return ==
    /\ pc = "done"
    /\ pc' = "idle"
    /\ act' = NoAct
    /\ log' = <<>>
    /\ pass' = NoPass
    /\ UNCHANGED <<store, regJobs, intJobs, now, faults>>

\* time passes while no handler runs: a minute or more, so that a
\* three-second confirmation has fired and is no longer scheduled
ClockAdvance ==
    /\ pc = "idle"
    /\ \E later \in ClockValues : later > now /\ now' = later
    /\ regJobs' = SelectSeq(regJobs, LAMBDA j : j.trigger.type # "timeInterval")
    /\ UNCHANGED <<store, intJobs, pc, act, log, pass, faults>>

\* the lists a process start may find stored: what the handlers write, and
\* records without a timer
StoredKinds ==
    Kinds(AppTimers, BOOLEAN, {"none", "daily"})
        \cup Kinds({NoTimer}, BOOLEAN, {"none"})

StoredLists == UNION {[1..n -> StoredKinds] : n \in 0..MaxStored}

StoredList(l) ==
    [i \in DOMAIN l |-> Reminder(i, <<"a">>, l[i].timer, l[i].isIntrusive, l[i].recurring)]

\* the clock readings of the resync over n reminders that last ran before
\* the process start
EarlierReadings(n) == [i \in 1..(1 + 2 * n) |-> At(8, 8, 0)]

\* a first start with nothing stored, or a start over a stored list and the
\* jobs the last resync of that list left in the two backends
Init ==
    /\ \/ /\ store = [present |-> FALSE, list |-> <<>>]
          /\ regJobs = <<>>
          /\ intJobs = {}
       \/ \E l \in StoredLists :
          /\ store = [present |-> TRUE, list |-> StoredList(l)]
          /\ regJobs = scheduleAllRegularNotifications(<<>>, StoredList(l), EarlierReadings(Len(l)),
                            [cancelAll |-> FALSE, schedule |-> {}]).jobs
          /\ intJobs = rescheduleAllIntrusiveAlarms({}, StoredList(l), EarlierReadings(Len(l)),
                            [list |-> FALSE, kept |-> {}, schedule |-> {}])
    /\ now \in ClockValues
    /\ pc = "boot"
    /\ act = NoAct
    /\ log = <<>>
    /\ pass = NoPass
    /\ faults = 0

Next ==
    \/ Boot
    \/ \E input \in SaveInputs, editing \in {NoReminder} \cup Range(store.list) :
            SaveBegin(input, editing)
    \/ \E selected \in Range(store.list) : DeleteBegin(selected)
    \/ StepRead
    \/ StepWrite
    \/ StepCancel
    \/ StepIntrusive
    \/ StepRegular
    \/ StepConfirm
    \/ Return
    \/ ClockAdvance

Spec == Init /\ [][Next]_vars

---------------------------------------------------------------------------
(* SpecSync: one full resync of either channel over a drawn reminder list, *)
(* from a backend that is empty or holds the jobs of an earlier list       *)

\* timers of the drawn reminders: none, the first clock value, a later day
SyncTimers == {NoTimer, At(9, 10, 0), At(10, 9, 0)}

\* 09:00 on each weekday, Sunday (day 7) to Saturday (day 13), and the
\* Tuesday after at 14:00
WeekdayTimers == {At(7 + d, 9, 0) : d \in 0..6} \cup {At(16, 14, 0)}

\* every reminder of the regular channel, and two of the other
RegularKinds ==
    Kinds(SyncTimers, {FALSE}, Recurrences)
        \cup Kinds({At(10, 9, 0)}, {TRUE}, {"none", "daily"})

\* every reminder of the intrusive channel, and two of the other
IntrusiveKinds ==
    Kinds(SyncTimers, {TRUE}, Recurrences)
        \cup Kinds({At(10, 9, 0)}, {FALSE}, {"none", "daily"})

\* weekly reminders of the regular channel on every weekday
WeeklyKinds == Kinds(WeekdayTimers \cup {NoTimer}, {FALSE}, {"weekly"})

ListsOver(kinds) == UNION {[1..n -> kinds] : n \in 0..MaxReminders}

\* the drawn lists: the i-th reminder has id i and message i
SyncLists == ListsOver(RegularKinds) \cup ListsOver(IntrusiveKinds) \cup ListsOver(WeeklyKinds)

SyncList(l) ==
    [i \in DOMAIN l |-> Reminder(i, i, l[i].timer, l[i].isIntrusive, l[i].recurring)]

\* a reminder list of an earlier session, and the jobs its resyncs left
EarlierList ==
    <<Reminder(1, 1, At(8, 7, 30), FALSE, "daily"),
      Reminder(MaxReminders + 1, 0, At(8, 7, 30), TRUE, "daily")>>

EarlierRegular ==
    scheduleAllRegularNotifications(<<>>, EarlierList, EarlierReadings(Len(EarlierList)),
        [cancelAll |-> FALSE, schedule |-> {}]).jobs

EarlierIntrusive ==
    rescheduleAllIntrusiveAlarms({}, EarlierList, EarlierReadings(Len(EarlierList)),
        [list |-> FALSE, kept |-> {}, schedule |-> {}])

SyncInit ==
    /\ \E l \in SyncLists : store = [present |-> TRUE, list |-> SyncList(l)]
    /\ \E earlier \in BOOLEAN :
        /\ regJobs = IF earlier THEN EarlierRegular ELSE <<>>
        /\ intJobs = IF earlier THEN EarlierIntrusive ELSE {}
    /\ now \in ClockValues
    /\ pc = "sync"
    /\ act = NoAct
    /\ log = <<>>
    /\ pass = NoPass
    /\ faults = 0

SyncRegular ==
    /\ pc = "sync"
    /\ pc' = "synced"
    /\ RegularPass(store.list, Readings(now, Len(store.list)), TRUE)
    /\ UNCHANGED <<store, intJobs, act, log, faults>>

SyncIntrusive ==
    /\ pc = "sync"
    /\ pc' = "synced"
    /\ IntrusivePass(store.list, Readings(now, Len(store.list)), TRUE)
    /\ UNCHANGED <<store, regJobs, act, log, faults>>

SyncNext == SyncRegular \/ SyncIntrusive

SpecSync == SyncInit /\ [][SyncNext]_vars

---------------------------------------------------------------------------
(* SpecDelete: handleDeleteReminder over a stored list of several reminders *)
(* and the jobs its last resync registered                                 *)

\* reminders of the regular channel in a few slots, and one of the other
DeleteKinds ==
    Kinds({NoTimer, At(10, 9, 0)}, {FALSE}, {"none", "daily", "weekly"})
        \cup Kinds({At(10, 9, 0)}, {TRUE}, {"daily"})

DeleteLists == UNION {[1..n -> DeleteKinds] : n \in 1..MaxReminders}

DeleteInit ==
    /\ \E l \in DeleteLists :
        /\ store = [present |-> TRUE, list |-> SyncList(l)]
        /\ regJobs = scheduleAllRegularNotifications(<<>>, SyncList(l),
                            EarlierReadings(Len(l)),
                            [cancelAll |-> FALSE, schedule |-> {}]).jobs
        /\ intJobs = rescheduleAllIntrusiveAlarms({}, SyncList(l), EarlierReadings(Len(l)),
                            [list |-> FALSE, kept |-> {}, schedule |-> {}])
    /\ now \in ClockValues
    /\ pc = "idle"
    /\ act = NoAct
    /\ log = <<>>
    /\ pass = NoPass
    /\ faults = 0

DeleteNext ==
    \/ \E selected \in Range(store.list) : DeleteBegin(selected)
    \/ StepCancel
    \/ StepRead
    \/ StepWrite
    \/ StepIntrusive
    \/ StepRegular
    \/ Return

SpecDelete == DeleteInit /\ [][DeleteNext]_vars

---------------------------------------------------------------------------
(* SpecOverlap: the handlers as the event loop runs them.  An async handler *)
(* gives up control at each await; onPress of the Save and Delete buttons  *)
(* and the mount effect start a handler whatever is pending.  Here pc and  *)
(* act hold one entry per pending invocation, log holds the presses so     *)
(* far, and a resync is one step.                                          *)

Units == 1..MaxUnits

\* what the user enters in the modal in these runs
OverlapInputs ==
    [message : {<<" ">>, <<"a">>}, alarmType : {"reminder"},
     reminderType : {"one-off", "daily"}, selectedTime : {At(10, 9, 0)}]

\* uid() of invocation u: an id of its own
OverlapUid(u) == MaxStored + u

OverlapData(u, input, editing) ==
    Reminder(IF editing = NoReminder THEN OverlapUid(u) ELSE editing.id,
             trim(input.message), input.selectedTime, input.alarmType = "alarm",
             IF input.reminderType = "one-off" THEN "none" ELSE input.reminderType)

\* the list a handler writes, from the list it read
ApplyChange(kind, reminders, target, data) ==
    IF kind = "delete" THEN SelectSeq(reminders, LAMBDA r : r.id # target.id)
    ELSE IF kind = "edit" THEN ReplaceById(reminders, target.id, data)
    ELSE Append(reminders, data)

\* the lists the mount effect may find stored in these runs
OverlapKinds ==
    Kinds({At(10, 9, 0)}, {FALSE}, {"daily"}) \cup Kinds({At(10, 9, 0)}, {TRUE}, {"none"})

OverlapLists == UNION {[1..n -> OverlapKinds] : n \in 0..MaxStored}

\* a press starts the handler in the lowest free entry
FreeUnit(u) ==
    /\ Len(log) < MaxPresses
    /\ pc[u] = "idle"
    /\ \A v \in Units : v < u => pc[v] # "idle"

\* the entry of a handler that has run to its end is free again
Finish(a) == IF a.todo = <<>> THEN NoAct ELSE a

OverlapInit ==
    /\ \/ /\ store = [present |-> FALSE, list |-> <<>>]
          /\ regJobs = <<>>
          /\ intJobs = {}
       \/ \E l \in OverlapLists :
          /\ store = [present |-> TRUE, list |-> StoredList(l)]
          /\ regJobs = scheduleAllRegularNotifications(<<>>, StoredList(l),
                            EarlierReadings(Len(l)),
                            [cancelAll |-> FALSE, schedule |-> {}]).jobs
          /\ intJobs = rescheduleAllIntrusiveAlarms({}, StoredList(l), EarlierReadings(Len(l)),
                            [list |-> FALSE, kept |-> {}, schedule |-> {}])
    /\ now = At(9, 10, 0)
    /\ pc = [u \in Units |-> IF u = 1 THEN "boot" ELSE "idle"]
    /\ act = [u \in Units |-> NoAct]
    /\ log = <<>>
    /\ pass = NoPass
    /\ faults = 0

\* the mount effect: init up to its SecureStore read
OverlapBoot ==
    /\ pc[1] = "boot"
    /\ act' = [act EXCEPT ![1] =
                IF store.present
                THEN [NoAct EXCEPT !.kind = "init", !.before = store.list,
                                   !.reminders = store.list, !.todo = InitFlow,
                                   !.outcome = "pending"]
                ELSE NoAct]
    /\ pc' = [pc EXCEPT ![1] = IF store.present THEN PcOf(act'[1]) ELSE "idle"]
    /\ UNCHANGED <<store, regJobs, intJobs, now, log, pass, faults>>

\* onPress of Save: handleSaveReminder up to its SecureStore read
OverlapSave(u, input, editing) ==
    /\ FreeUnit(u)
    /\ editing = NoReminder =>
            /\ Len(store.list) < MaxStored
            /\ OverlapUid(u) \notin IdsOf(store.list)
            /\ \A j \in DOMAIN regJobs : ~JobNames(regJobs[j], OverlapUid(u))
    /\ LET kind == IF editing = NoReminder THEN "create" ELSE "edit"
       IN  act' = [act EXCEPT ![u] =
                IF trim(input.message) = <<>>
                THEN NoAct
                ELSE [NoAct EXCEPT !.kind = kind, !.target = editing, !.input = input,
                                   !.todo = SaveFlow(editing # NoReminder,
                                                     input.reminderType # "one-off"),
                                   !.outcome = "pending"]]
    /\ pc' = [pc EXCEPT ![u] = IF act'[u] = NoAct THEN "idle" ELSE PcOf(act'[u])]
    /\ log' = Append(log, "save")
    /\ UNCHANGED <<store, regJobs, intJobs, now, pass, faults>>

\* onPress of Delete: handleDeleteReminder up to its cancelNotifs
OverlapDelete(u, selected) ==
    /\ FreeUnit(u)
    /\ act' = [act EXCEPT ![u] =
                [NoAct EXCEPT !.kind = "delete", !.target = selected,
                              !.todo = DeleteFlow, !.outcome = "pending"]]
    /\ pc' = [pc EXCEPT ![u] = PcOf(act'[u])]
    /\ log' = Append(log, "delete")
    /\ UNCHANGED <<store, regJobs, intJobs, now, pass, faults>>

\* the awaited call invocation u is at resolves, with no backend failure,
\* and u runs to its next await or to its end
OverlapStep(u) ==
    LET a == act[u]
        step == pc[u]
        reminders == IF store.present THEN store.list ELSE <<>>
        data == OverlapData(u, a.input, a.target)
        steady == [i \in 1..(1 + 2 * Len(a.reminders)) |-> now]
    IN  /\ step \in {"read", "write", "cancel", "intrusive", "regular", "confirm"}
        /\ act' = [act EXCEPT ![u] =
                    IF step = "read"
                    THEN [Proceed(a) EXCEPT
                            !.before = reminders,
                            !.data = IF a.kind = "delete" THEN NoReminder ELSE data,
                            !.reminders = ApplyChange(a.kind, reminders, a.target, data)]
                    ELSE Finish(Proceed(a))]
        /\ pc' = [pc EXCEPT ![u] = IF act'[u] = NoAct THEN "idle" ELSE PcOf(act'[u])]
        /\ store' = IF step = "write" THEN [present |-> TRUE, list |-> a.reminders]
                    ELSE store
        /\ regJobs' =
                IF step = "cancel" /\ ~a.target.isIntrusive
                THEN cancelRegularNotification(regJobs, a.target.id, FALSE)
                ELSE IF step = "regular"
                THEN scheduleAllRegularNotifications(regJobs, a.reminders, steady,
                            [cancelAll |-> FALSE, schedule |-> {}]).jobs
                ELSE IF step = "confirm"
                THEN scheduleConfirmationNotification(regJobs, a.data, FALSE)
                ELSE regJobs
        /\ intJobs' =
                IF step = "cancel" /\ a.target.isIntrusive
                THEN cancelIntrusiveAlarm(intJobs, a.target.id, FALSE)
                ELSE IF step = "intrusive"
                THEN rescheduleAllIntrusiveAlarms(intJobs, a.reminders, steady,
                            [list |-> FALSE, kept |-> {}, schedule |-> {}])
                ELSE intJobs
        /\ UNCHANGED <<now, log, pass, faults>>

OverlapNext ==
    \/ OverlapBoot
    \/ \E u \in Units, input \in OverlapInputs,
            editing \in {NoReminder} \cup Range(store.list) : OverlapSave(u, input, editing)
    \/ \E u \in Units, selected \in Range(store.list) : OverlapDelete(u, selected)
    \/ \E u \in Units : OverlapStep(u)

SpecOverlap == OverlapInit /\ [][OverlapNext]_vars

---------------------------------------------------------------------------
(* SpecRace: two calls of scheduleAllRegularNotifications over the same    *)
(* list, pending together; each gives up control at its awaits, which are  *)
(* its backend calls.  Here act holds one entry per call and log the       *)
(* backend calls made so far.                                              *)

Racers == {1, 2}

\* cancelAllScheduledNotificationsAsync that cancels nothing
cancelAllScheduledNotificationsAsync_KeepsAll(jobs) == jobs

\* Notifications.cancelAllScheduledNotificationsAsync()
cancelAllScheduledNotificationsAsync(jobs) == <<>>

RaceKinds == Kinds({NoTimer, At(10, 9, 0)}, {FALSE}, {"none", "daily", "weekly"})

RaceLists == UNION {[1..n -> RaceKinds] : n \in 1..MaxReminders}

\* the trigger groups a call derives from the list once its cancel-all has
\* resolved, in the order it registers them
RaceGroups(reminders, nw) ==
    GroupList(groupRemindersByTimeAndType(
        SelectSeq(reminders, LAMBDA r : RegularFilter(r, nw)),
        [i \in 1..Len(reminders) |-> nw]))

NoCall == [stage |-> "cancel", groups |-> <<>>, next |-> 1]

RaceInit ==
    /\ \E l \in RaceLists, earlier \in BOOLEAN :
        /\ store = [present |-> TRUE, list |-> SyncList(l)]
        /\ regJobs = IF earlier
                     THEN scheduleAllRegularNotifications(<<>>, SyncList(l),
                                EarlierReadings(Len(l)),
                                [cancelAll |-> FALSE, schedule |-> {}]).jobs
                     ELSE <<>>
    /\ intJobs = {}
    /\ now \in ClockValues
    /\ pc = "race"
    /\ act = [p \in Racers |-> NoCall]
    /\ log = <<>>
    /\ pass = NoPass
    /\ faults = 0

\* call p: await cancelAllScheduledNotificationsAsync(), then the filter
\* and the grouping, up to the first registration
RaceCancelAll(p) ==
    /\ pc = "race"
    /\ act[p].stage = "cancel"
    /\ regJobs' = cancelAllScheduledNotificationsAsync(regJobs)
    /\ LET groups == RaceGroups(store.list, now)
       IN  act' = [act EXCEPT ![p] =
                    [stage |-> IF groups = <<>> THEN "end" ELSE "register",
                     groups |-> groups, next |-> 1]]
    /\ log' = Append(log, [by |-> p, call |-> "cancelAll", ids |-> {}])
    /\ UNCHANGED <<store, intJobs, now, pc, pass, faults>>

\* call p: await scheduleConsolidatedNotification of its next group
RaceRegister(p) ==
    /\ pc = "race"
    /\ act[p].stage = "register"
    /\ LET g == act[p].groups[act[p].next]
       IN  /\ regJobs' = scheduleConsolidatedNotification(regJobs, g.members, g.key,
                                                          g.type, now, FALSE)
           /\ log' = Append(log, [by |-> p, call |-> "register",
                                  ids |-> IdsOf(g.members)])
    /\ act' = [act EXCEPT ![p] =
                [@ EXCEPT !.next = @ + 1,
                          !.stage = IF act[p].next = Len(act[p].groups)
                                    THEN "end" ELSE "register"]]
    /\ UNCHANGED <<store, intJobs, now, pc, pass, faults>>

RaceNext == \E p \in Racers : RaceCancelAll(p) \/ RaceRegister(p)

SpecRace == RaceInit /\ [][RaceNext]_vars

---------------------------------------------------------------------------
(* app/index.jsx: the categorizer and the one-minute tick *)

\* date-fns isPast, isToday and isFuture against the Date.now() they read
isPast(t, clk) == t < clk

isToday(t, clk) == DayOf(t) = DayOf(clk)

isFuture(t, clk) == t > clk

\* a forEach that looks at the timer before the recurrence
BucketOf_TimerFirst(reminder, nw, cs) ==
    IF HasTimer(reminder)
    THEN IF isPast(reminder.timer, cs[1]) /\ ~isToday(reminder.timer, cs[2]) THEN "past"
         ELSE IF isToday(reminder.timer, cs[3])
         THEN IF reminder.timer < nw THEN "past" ELSE "today"
         ELSE IF isFuture(reminder.timer, cs[4]) THEN "upcoming"
         ELSE "past"
    ELSE IF reminder.recurring # "none" THEN "recurring"
    ELSE "today"

\* a forEach that takes a timer at now as passed
BucketOf_NowIsPast(reminder, nw, cs) ==
    IF reminder.recurring # "none" THEN "recurring"
    ELSE IF HasTimer(reminder)
    THEN IF isPast(reminder.timer, cs[1]) /\ ~isToday(reminder.timer, cs[2]) THEN "past"
         ELSE IF isToday(reminder.timer, cs[3])
         THEN IF reminder.timer <= nw THEN "past" ELSE "today"
         ELSE IF isFuture(reminder.timer, cs[4]) THEN "upcoming"
         ELSE "past"
    ELSE "today"

\* the bucket the forEach of categorizeReminders pushes a reminder to; nw is
\* the now of the call, cs the four readings of Date.now() in date-fns
BucketOf(reminder, nw, cs) ==
    IF reminder.recurring # "none" THEN "recurring"
    ELSE IF HasTimer(reminder)
    THEN IF isPast(reminder.timer, cs[1]) /\ ~isToday(reminder.timer, cs[2]) THEN "past"
         ELSE IF isToday(reminder.timer, cs[3])
         THEN IF reminder.timer < nw THEN "past" ELSE "today"
         ELSE IF isFuture(reminder.timer, cs[4]) THEN "upcoming"
         ELSE "past"
    ELSE "today"

\* a sortByTime that compares the timers only
sortByTime_TimersOnly(a, b) == a.timer - b.timer

\* the comparator of the today, upcoming and recurring buckets
sortByTime(a, b) ==
    IF ~HasTimer(a) THEN 1
    ELSE IF ~HasTimer(b) THEN -1
    ELSE a.timer - b.timer

\* the comparator of the past bucket
sortPast(a, b) == b.timer - a.timer

\* the comparator handed to Array.prototype.sort: that of the past bucket,
\* or sortByTime
Comparator(past, a, b) == IF past THEN sortPast(a, b) ELSE sortByTime(a, b)

\* one insertion of Array.prototype.sort: x goes in front of the trailing
\* run of entries it compares less than
InsertSorted(sorted, x, past) ==
    LET stops == {k \in DOMAIN sorted : ~(Comparator(past, x, sorted[k]) < 0)}
        j == IF stops = {} THEN 0
             ELSE CHOOSE k \in stops : \A other \in stops : other <= k
    IN  SubSeq(sorted, 1, j) \o <<x>> \o SubSeq(sorted, j + 1, Len(sorted))

\* Array.prototype.sort(compare) on a short array: a stable insertion sort
\* that asks compare(later entry, earlier entry)
sort(s, past) ==
    LET upTo[k \in 0..Len(s)] ==
            IF k = 0 THEN <<>> ELSE InsertSorted(upTo[k - 1], s[k], past)
    IN  upTo[Len(s)]

NoBuckets == [recurring |-> <<>>, today |-> <<>>, upcoming |-> <<>>, past |-> <<>>]

\* a push that lists a passed reminder under today as well
PushToBucket_PastAlsoToday(categorized, bucket, reminder) ==
    IF bucket = "past"
    THEN [categorized EXCEPT !.past = Append(@, reminder), !.today = Append(@, reminder)]
    ELSE [categorized EXCEPT ![bucket] = Append(@, reminder)]

\* categorized[bucket].push(reminder)
PushToBucket(categorized, bucket, reminder) ==
    [categorized EXCEPT ![bucket] = Append(@, reminder)]

\* the four sorts at the end of categorizeReminders
SortBuckets(categorized) ==
    [recurring |-> sort(categorized.recurring, FALSE),
     today |-> sort(categorized.today, FALSE),
     upcoming |-> sort(categorized.upcoming, FALSE),
     past |-> sort(categorized.past, TRUE)]

\* the clock of the categorizer: the last minute of day 9 and the first of
\* day 10
CatClock == {At(9, 23, 59), At(10, 0, 0)}

CatTimers == {NoTimer, At(8, 12, 0), At(9, 23, 58), At(9, 23, 59), At(10, 0, 1)}

CatKinds == Kinds(CatTimers, {FALSE}, {"none", "daily"})

CatLists == UNION {[1..n -> CatKinds] : n \in 0..MaxReminders}

\* four readings of Date.now(), none before t and none before the one
\* before it
DateFnsReadings(t) ==
    {cs \in [1..4 -> CatClock] :
        /\ cs[1] >= t
        /\ \A i \in 1..3 : cs[i] <= cs[i + 1]}

NoRender ==
    [reminders |-> <<>>, now |-> 0, next |-> 0, categorized |-> NoBuckets,
     unsorted |-> NoBuckets, steady |-> TRUE, ticks |-> 0]

\* the app shows a stored list; the jobs are those the resync of the list
\* left
CatInit ==
    /\ \E l \in CatLists :
        /\ store = [present |-> TRUE, list |-> StoredList(l)]
        /\ regJobs = scheduleAllRegularNotifications(<<>>, StoredList(l),
                            EarlierReadings(Len(l)),
                            [cancelAll |-> FALSE, schedule |-> {}]).jobs
        /\ intJobs = rescheduleAllIntrusiveAlarms({}, StoredList(l), EarlierReadings(Len(l)),
                            [list |-> FALSE, kept |-> {}, schedule |-> {}])
        /\ act = [NoRender EXCEPT !.reminders = StoredList(l)]
    /\ now \in CatClock
    /\ pc = "render"
    /\ log = <<>>
    /\ pass = NoPass
    /\ faults = 0

\* categorizeReminders(reminders) up to its forEach: now = new Date()
CategorizeBegin ==
    /\ pc = "render"
    /\ act' = [act EXCEPT !.now = now, !.next = 1, !.categorized = NoBuckets,
                          !.unsorted = NoBuckets, !.steady = TRUE]
    /\ pc' = IF Len(act.reminders) = 0 THEN "shown" ELSE "each"
    /\ UNCHANGED <<store, regJobs, intJobs, now, log, pass, faults>>

\* one round of the forEach
CategorizeEach ==
    /\ pc = "each"
    /\ \E cs \in DateFnsReadings(now) :
        LET reminder == act.reminders[act.next]
            pushed == PushToBucket(act.categorized, BucketOf(reminder, act.now, cs),
                                   reminder)
        IN  /\ act' = [act EXCEPT !.next = @ + 1, !.categorized = pushed,
                                  !.unsorted = pushed,
                                  !.steady = @ /\ \A i \in 1..4 : cs[i] = act.now]
            /\ now' = cs[4]
    /\ pc' = IF act.next = Len(act.reminders) THEN "sort" ELSE "each"
    /\ UNCHANGED <<store, regJobs, intJobs, log, pass, faults>>

\* the four sorts and the return
CategorizeSort ==
    /\ pc = "sort"
    /\ act' = [act EXCEPT !.categorized = SortBuckets(@)]
    /\ pc' = "shown"
    /\ UNCHANGED <<store, regJobs, intJobs, now, log, pass, faults>>

\* a tick that resyncs both channels
Tick_Resyncing(reminders) ==
    [reminders |-> reminders,
     regular |-> scheduleAllRegularNotifications(regJobs, reminders,
                    [i \in 1..(1 + 2 * Len(reminders)) |-> now],
                    [cancelAll |-> FALSE, schedule |-> {}]).jobs,
     intrusive |-> rescheduleAllIntrusiveAlarms(intJobs, reminders,
                    [i \in 1..(1 + 2 * Len(reminders)) |-> now],
                    [list |-> FALSE, kept |-> {}, schedule |-> {}])]

\* what the interval's callback does: setReminders((prev) => [...prev])
Tick(reminders) ==
    [reminders |-> [i \in 1..Len(reminders) |-> reminders[i]],
     regular |-> regJobs, intrusive |-> intJobs]

\* the interval fires, a minute or more after the last render
TickFires ==
    /\ pc = "shown"
    /\ \E later \in CatClock :
        /\ later >= act.now + 60000
        /\ later >= now
        /\ now' = later
    /\ LET done == Tick(act.reminders)
       IN  /\ act' = [act EXCEPT !.reminders = done.reminders, !.ticks = @ + 1]
           /\ regJobs' = done.regular
           /\ intJobs' = done.intrusive
    /\ pc' = "render"
    /\ UNCHANGED <<store, log, pass, faults>>

CatNext == CategorizeBegin \/ CategorizeEach \/ CategorizeSort \/ TickFires

SpecCategorize == CatInit /\ [][CatNext]_vars

---------------------------------------------------------------------------
(* groupRemindersByTimeAndType called again and again on one list *)

MaxCalls == 2

\* a Sunday morning, a Tuesday morning at a one-off's instant, a Saturday
GroupClock == {At(7, 8, 0), At(9, 10, 0), At(13, 8, 30)}

GroupKinds ==
    Kinds({NoTimer, At(3, 8, 30), At(9, 8, 30), At(9, 9, 30), At(9, 8, 31)}, {FALSE}, {"daily"})
        \cup Kinds({NoTimer, At(7, 9, 0)}, {FALSE}, {"weekly"})
        \cup Kinds({NoTimer}, {FALSE}, {"monthly"})
        \cup Kinds({At(9, 10, 0), AtMs(9, 10, 0, 0, 250), AtMs(9, 10, 0, 1, 0)},
                   {FALSE}, {"none"})

GroupLists == UNION {[1..n -> GroupKinds] : n \in 1..MaxReminders}

\* n readings of the clock, none before t and none before the one before it
GroupReadings(t, n) ==
    {cs \in [1..n -> GroupClock] :
        /\ \A i \in 1..n : cs[i] >= t
        /\ \A i \in 1..(n - 1) : cs[i] <= cs[i + 1]}

GroupInit ==
    /\ \E l \in GroupLists : act = [reminders |-> StoredList(l)]
    /\ now \in GroupClock
    /\ pc = "group"
    /\ log = <<>>
    /\ store = [present |-> FALSE, list |-> <<>>]
    /\ regJobs = <<>>
    /\ intJobs = {}
    /\ pass = NoPass
    /\ faults = 0

\* one call of groupRemindersByTimeAndType(reminders)
GroupCall ==
    /\ pc = "group"
    /\ Len(log) < MaxCalls
    /\ \E clocks \in GroupReadings(now, Len(act.reminders)) :
        /\ log' = Append(log, [clocks |-> clocks,
                               groups |-> groupRemindersByTimeAndType(act.reminders, clocks)])
        /\ now' = clocks[Len(clocks)]
    /\ pc' = "grouped"
    /\ UNCHANGED <<store, regJobs, intJobs, act, pass, faults>>

\* the groups of the last call are registered, as the loops of
\* scheduleAllRegularNotifications do
RegisterGroups ==
    /\ pc = "grouped"
    /\ LET glist == GroupList(log[Len(log)].groups)
       IN  \E clocks \in GroupReadings(now, Len(glist)) :
            /\ regJobs' = ScheduleFrom(<<>>, glist, clocks, {}, 1)
            /\ now' = IF glist = <<>> THEN now ELSE clocks[Len(clocks)]
    /\ pc' = "group"
    /\ UNCHANGED <<store, intJobs, act, log, pass, faults>>

GroupNext == GroupCall \/ RegisterGroups

SpecGroup == GroupInit /\ [][GroupNext]_vars

---------------------------------------------------------------------------
(* scheduleAllRegularNotifications step by step, the clock moving between
   its steps *)

\* three instants a second apart
ExpiryClock == {AtMs(9, 10, 0, 0, 0), AtMs(9, 10, 0, 1, 0), AtMs(9, 10, 0, 2, 0)}

ExpiryKinds ==
    Kinds({AtMs(9, 10, 0, 1, 0), AtMs(9, 10, 0, 2, 0), AtMs(9, 10, 0, 3, 0)}, {FALSE}, {"none"})
        \cup Kinds({AtMs(9, 10, 0, 1, 0)}, {FALSE}, {"daily"})

ExpiryLists == UNION {[1..n -> ExpiryKinds] : n \in 1..MaxReminders}

NoResync == [reminders |-> <<>>, admitted |-> <<>>, glist |-> <<>>, next |-> 0]

\* a list is stored and a resync of it starts; the jobs are those an
\* earlier resync left
ExpiryInit ==
    /\ \E l \in ExpiryLists :
        /\ store = [present |-> TRUE, list |-> StoredList(l)]
        /\ regJobs = scheduleAllRegularNotifications(<<>>, StoredList(l),
                            EarlierReadings(Len(l)),
                            [cancelAll |-> FALSE, schedule |-> {}]).jobs
        /\ act = [NoResync EXCEPT !.reminders = StoredList(l)]
    /\ now \in ExpiryClock
    /\ pc = "filter"
    /\ intJobs = {}
    /\ log = <<>>
    /\ pass = NoPass
    /\ faults = 0

\* the cancel-all and the admission filter with its `now`
ExpiryFilter ==
    /\ pc = "filter"
    /\ \E clk \in {t \in ExpiryClock : t >= now} :
        /\ now' = clk
        /\ act' = [act EXCEPT !.admitted = SelectSeq(act.reminders,
                                                LAMBDA r : RegularFilter(r, clk)),
                              !.glist = <<>>, !.next = 0]
    /\ regJobs' = cancelAllScheduledNotificationsAsync(regJobs)
    /\ pc' = IF act'.admitted = <<>> THEN "synced" ELSE "group"
    /\ UNCHANGED <<store, intJobs, log, pass, faults>>

\* groupRemindersByTimeAndType(nonIntrusiveReminders)
ExpiryGroup ==
    /\ pc = "group"
    /\ \E clocks \in {cs \in [1..Len(act.admitted) -> ExpiryClock] :
                        /\ \A i \in DOMAIN cs : cs[i] >= now
                        /\ \A i \in 1..(Len(cs) - 1) : cs[i] <= cs[i + 1]} :
        /\ act' = [act EXCEPT
                    !.glist = GroupList(groupRemindersByTimeAndType(act.admitted, clocks)),
                    !.next = 1]
        /\ now' = clocks[Len(clocks)]
    /\ pc' = IF act'.glist = <<>> THEN "synced" ELSE "register"
    /\ UNCHANGED <<store, regJobs, intJobs, log, pass, faults>>

\* one round of the group loops: scheduleConsolidatedNotification of the
\* next group
ExpiryRegister ==
    /\ pc = "register"
    /\ \E clk \in {t \in ExpiryClock : t >= now} :
        LET g == act.glist[act.next]
        IN  /\ regJobs' = scheduleConsolidatedNotification(regJobs, g.members, g.key,
                                g.type, clk, FALSE)
            /\ now' = clk
    /\ act' = [act EXCEPT !.next = @ + 1]
    /\ pc' = IF act.next = Len(act.glist) THEN "synced" ELSE "register"
    /\ UNCHANGED <<store, intJobs, log, pass, faults>>

\* the next resync of the same list
ExpiryResync ==
    /\ pc = "synced"
    /\ pc' = "filter"
    /\ act' = [NoResync EXCEPT !.reminders = act.reminders]
    /\ UNCHANGED <<store, regJobs, intJobs, now, log, pass, faults>>

ExpiryNext == ExpiryFilter \/ ExpiryGroup \/ ExpiryRegister \/ ExpiryResync

SpecExpiry == ExpiryInit /\ [][ExpiryNext]_vars

---------------------------------------------------------------------------
(* app/index.jsx: one create, edit or delete over a longer list, the
   records with their createdAt and updatedAt *)

\* a stored record: the fields of Reminder and the two time stamps
Stamped(r, createdAt, updatedAt) ==
    r @@ [createdAt |-> createdAt, updatedAt |-> updatedAt]

MutateInputs ==
    [message : {<<"b">>}, alarmType : {"reminder", "alarm"},
     reminderType : {"one-off", "daily"}, selectedTime : {At(10, 9, 0)}]

MutateKinds == Kinds({At(10, 9, 0)}, BOOLEAN, {"daily"})

MutateLists == UNION {[1..n -> MutateKinds] : n \in 0..MaxReminders}

\* the stored records were created and last saved before the process start
MutateList(l) ==
    [i \in DOMAIN l |->
        Stamped(Reminder(i, <<"a">>, l[i].timer, l[i].isIntrusive, l[i].recurring),
                At(8, 8, 0), At(8, 8, 0))]

\* uid() in these runs: the least number that is no id of the list read
MutateUid(reminders) ==
    CHOOSE id \in 1..(Len(reminders) + 1) :
        /\ id \notin IdsOf(reminders)
        /\ \A other \in 1..(Len(reminders) + 1) : other \notin IdsOf(reminders) => id <= other

\* a reminderData that stamps createdAt anew on every save
MutateData_FreshCreatedAt(input, editing, reminders, clk) ==
    Stamped(Reminder(IF editing = NoReminder THEN MutateUid(reminders) ELSE editing.id,
                     trim(input.message), input.selectedTime, input.alarmType = "alarm",
                     IF input.reminderType = "one-off" THEN "none" ELSE input.reminderType),
            clk, clk)

\* the reminderData of handleSaveReminder with its time stamps; clk is the
\* clock its two new Date() read
MutateData(input, editing, reminders, clk) ==
    Stamped(Reminder(IF editing = NoReminder THEN MutateUid(reminders) ELSE editing.id,
                     trim(input.message), input.selectedTime, input.alarmType = "alarm",
                     IF input.reminderType = "one-off" THEN "none" ELSE input.reminderType),
            IF editing = NoReminder THEN clk ELSE editing.createdAt, clk)

\* the app is idle over a stored list and the jobs its last resync left; no
\* backend call fails in these runs
MutateInit ==
    /\ \E l \in MutateLists :
        /\ store = [present |-> TRUE, list |-> MutateList(l)]
        /\ regJobs = scheduleAllRegularNotifications(<<>>, MutateList(l),
                            EarlierReadings(Len(l)),
                            [cancelAll |-> FALSE, schedule |-> {}]).jobs
        /\ intJobs = rescheduleAllIntrusiveAlarms({}, MutateList(l), EarlierReadings(Len(l)),
                            [list |-> FALSE, kept |-> {}, schedule |-> {}])
    /\ now \in ClockValues
    /\ pc = "idle"
    /\ act = NoAct
    /\ log = <<>>
    /\ pass = NoPass
    /\ faults = MaxFaults

\* handleSaveReminder up to its SecureStore read
MutateSave(input, editing) ==
    /\ pc = "idle"
    /\ editing = NoReminder => Len(store.list) <= MaxReminders
    /\ act' = [NoAct EXCEPT !.kind = IF editing = NoReminder THEN "create" ELSE "edit",
                            !.target = editing, !.input = input,
                            !.todo = SaveFlow(editing # NoReminder,
                                              input.reminderType # "one-off"),
                            !.outcome = "pending"]
    /\ pc' = PcOf(act')
    /\ log' = <<>>
    /\ UNCHANGED <<store, regJobs, intJobs, now, pass, faults>>

\* the SecureStore read of a mutation handler and the change it applies to
\* the list it read
MutateRead ==
    /\ pc = "read"
    /\ LET reminders == IF store.present THEN store.list ELSE <<>>
           data == MutateData(act.input, act.target, reminders, now)
       IN  act' = [Proceed(act) EXCEPT
                        !.before = reminders,
                        !.data = IF act.kind = "delete" THEN NoReminder ELSE data,
                        !.reminders = ApplyChange(act.kind, reminders, act.target, data)]
    /\ pc' = PcOf(act')
    /\ log' = Append(log, "read")
    /\ UNCHANGED <<store, regJobs, intJobs, now, pass, faults>>

\* the handler has returned; these runs end with it
MutateReturn ==
    /\ pc = "done"
    /\ pc' = "returned"
    /\ UNCHANGED <<store, regJobs, intJobs, now, act, log, pass, faults>>

MutateNext ==
    \/ \E input \in MutateInputs, editing \in {NoReminder} \cup Range(store.list) :
            MutateSave(input, editing)
    \/ \E selected \in Range(store.list) : DeleteBegin(selected)
    \/ MutateRead
    \/ StepWrite
    \/ StepCancel
    \/ StepIntrusive
    \/ StepRegular
    \/ StepConfirm
    \/ MutateReturn

SpecMutate == MutateInit /\ [][MutateNext]_vars

---------------------------------------------------------------------------
(* scheduleIntrusiveAlarm and cancelIntrusiveAlarm on one reminder *)

\* a morning, half a second later, and the late evening of the same day
AlarmClock == {At(9, 10, 0), AtMs(9, 10, 0, 0, 500), At(9, 23, 30)}

\* no timer, 08:30, 10:00 of the day of the clock, 23:00
AlarmTimers == {NoTimer, At(3, 8, 30), At(9, 10, 0), At(3, 23, 0), At(10, 23, 0)}

AlarmKinds == Kinds(AlarmTimers, BOOLEAN, {"none", "daily", "weekly"})

NoAlarmCall == [reminder |-> NoReminder, at |-> 0]

AlarmInit ==
    /\ \E k \in AlarmKinds :
        act = [NoAlarmCall EXCEPT
                !.reminder = Reminder(1, <<"a">>, k.timer, k.isIntrusive, k.recurring)]
    /\ now \in AlarmClock
    /\ pc = "schedule"
    /\ intJobs = {}
    /\ regJobs = <<>>
    /\ store = [present |-> FALSE, list |-> <<>>]
    /\ log = <<>>
    /\ pass = NoPass
    /\ faults = 0

\* await scheduleIntrusiveAlarm(reminder)
AlarmSchedule ==
    /\ pc = "schedule"
    /\ \E clk \in {t \in AlarmClock : t >= now} :
        /\ intJobs' = scheduleIntrusiveAlarm(intJobs, act.reminder, clk, FALSE)
        /\ act' = [act EXCEPT !.at = clk]
        /\ now' = clk
    /\ pc' = "scheduled"
    /\ UNCHANGED <<store, regJobs, log, pass, faults>>

\* await cancelIntrusiveAlarm(reminder.id)
AlarmCancel ==
    /\ pc = "scheduled"
    /\ intJobs' = cancelIntrusiveAlarm(intJobs, act.reminder.id, FALSE)
    /\ pc' = "schedule"
    /\ UNCHANGED <<store, regJobs, now, act, log, pass, faults>>

AlarmNext == AlarmSchedule \/ AlarmCancel

SpecAlarm == AlarmInit /\ [][AlarmNext]_vars

---------------------------------------------------------------------------
(* Properties of the full resyncs *)

\* the reminder ids a scheduled notification carries, in order
MemberIds(job) ==
    IF job.data.type = "consolidated" THEN job.data.reminderIds
    ELSE <<job.data.reminderId>>

\* how many (job, position) places of the regular channel carry the id
TimesCarried(jobs, id) ==
    Cardinality({<<j, k>> \in (DOMAIN jobs) \X (1..MaxReminders) :
                    k \in DOMAIN MemberIds(jobs[j]) /\ MemberIds(jobs[j])[k] = id})

AllCarried(jobs) ==
    UNION {Range(MemberIds(jobs[j])) : j \in DOMAIN jobs}

RegularPassDone == pc = "synced" /\ pass.kind = "regular" /\ pass.clean /\ pass.steady

IntrusivePassDone == pc = "synced" /\ pass.kind = "intrusive" /\ pass.clean /\ pass.steady

\* the regular partition as the specification words it
SpecRegularAdmits(r, at) ==
    /\ ~r.isIntrusive
    /\ \/ r.recurring \in {"daily", "weekly", "monthly"}
       \/ r.timer # NoTimer /\ r.timer > at

\* the intrusive partition as the specification words it
SpecIntrusiveAdmits(r, at) ==
    /\ r.isIntrusive
    /\ \/ r.recurring = "daily"
       \/ r.timer # NoTimer /\ r.timer >= at

\* C1: after a full regular resync that ran to completion with no backend
\* failure and a steady clock, the ids carried by the registered regular jobs
\* are exactly the ids of the reminders the regular partition admits, and
\* each of them is carried exactly once.
C1_RegularJobsCarryAdmitted ==
    RegularPassDone =>
        \A id \in IdsOf(pass.list) \cup AllCarried(regJobs) :
            TimesCarried(regJobs, id) =
                IF \E i \in DOMAIN pass.list :
                        pass.list[i].id = id /\ SpecRegularAdmits(pass.list[i], pass.at)
                THEN 1 ELSE 0

\* a pass over a list with an expired one-off and an intrusive reminder, on
\* a backend that held the jobs of an earlier list
C1_Witness ==
    /\ RegularPassDone
    /\ \E i \in DOMAIN pass.list : pass.list[i].isIntrusive
    /\ \E i \in DOMAIN pass.list : ~pass.list[i].isIntrusive
            /\ pass.list[i].recurring = "none" /\ pass.list[i].timer = pass.at
    /\ intJobs # {}

\* C2: after a full regular resync with no backend failure no two registered
\* regular jobs have the same recurrence descriptor.
C2_OneJobPerDescriptor ==
    RegularPassDone =>
        \A i, j \in DOMAIN regJobs : i # j => regJobs[i].trigger # regJobs[j].trigger

\* C3: every non-intrusive weekly reminder with a timer is carried by a weekly
\* job whose weekday denotes the timer's local weekday (1 = Sunday .. 7 =
\* Saturday), with the timer's local hour and minute.
C3_WeeklyWeekday ==
    RegularPassDone =>
        \A i \in DOMAIN pass.list :
            LET r == pass.list[i]
            IN  (~r.isIntrusive /\ r.recurring = "weekly" /\ HasTimer(r)) =>
                    \E j \in DOMAIN regJobs :
                        /\ r.id \in Range(MemberIds(regJobs[j]))
                        /\ regJobs[j].trigger.type = "weekly"
                        /\ regJobs[j].trigger.weekday = getDay(r.timer) + 1
                        /\ regJobs[j].trigger.hour = getHours(r.timer)
                        /\ regJobs[j].trigger.minute = getMinutes(r.timer)
                        /\ (Len(pass.list) = 1 => MemberIds(regJobs[j]) = <<r.id>>)

\* the recurrence slot of a reminder as the specification's data model words
\* it: the recurrence type and the slot key
SpecSlot(r) ==
    IF r.recurring = "daily" THEN
        IF r.timer = NoTimer THEN <<"daily", 9, 0>>
        ELSE <<"daily", getHours(r.timer), getMinutes(r.timer)>>
    ELSE IF r.recurring = "weekly" THEN
        IF r.timer = NoTimer THEN <<"weekly", 0, 9, 0>>
        ELSE <<"weekly", getDay(r.timer), getHours(r.timer), getMinutes(r.timer)>>
    ELSE IF r.recurring = "monthly" THEN
        IF r.timer = NoTimer THEN <<"monthly", 1, 9, 0>>
        ELSE <<"monthly", getDate(r.timer), getHours(r.timer), getMinutes(r.timer)>>
    ELSE <<"oneTime", r.timer>>

\* the admitted reminders of the list that share the slot of its i-th, in
\* list order
SlotMembers(list, at, i) ==
    SelectSeq(list, LAMBDA r : SpecRegularAdmits(r, at) /\ SpecSlot(r) = SpecSlot(list[i]))

\* C4: every trigger group of the pass has one job; a group of one gives a
\* "single" job with the member's id as metadata and its message as body; a
\* group of k > 1 gives a "consolidated" job listing the k ids in input
\* order, its body the k messages numbered 1..k in that order.
C4_SingleAndConsolidated ==
    RegularPassDone =>
        \A i \in DOMAIN pass.list :
            SpecRegularAdmits(pass.list[i], pass.at) =>
                LET g == SlotMembers(pass.list, pass.at, i)
                    k == Len(g)
                    wanted ==
                        IF k = 1
                        THEN [body |-> <<[n |-> 0, text |-> g[1].message]>>,
                              data |-> [type |-> "single", reminderId |-> g[1].id,
                                        reminderIds |-> <<>>, count |-> 0]]
                        ELSE [body |-> [m \in 1..k |-> [n |-> m, text |-> g[m].message]],
                              data |-> [type |-> "consolidated", reminderId |-> NoId,
                                        reminderIds |-> [m \in 1..k |-> g[m].id],
                                        count |-> k]]
                IN  Cardinality({j \in DOMAIN regJobs :
                        /\ regJobs[j].body = wanted.body
                        /\ regJobs[j].data = wanted.data}) = 1

\* a pass that registered one consolidated job for two reminders of a slot
C4_Witness ==
    /\ RegularPassDone
    /\ Len(regJobs) = 1
    /\ regJobs[1].data.type = "consolidated"
    /\ regJobs[1].data.count = 2
    /\ Len(regJobs[1].body) = 2

\* C5: no reminder of the list is admitted by both partition filters,
\* whatever clock each filter reads.
C5_PartitionExclusive ==
    \A i \in DOMAIN store.list : \A c1, c2 \in ClockValues :
        ~(IntrusiveFilter(store.list[i], c1) /\ RegularFilter(store.list[i], c2))

\* a list with a reminder for each partition, after a pass
C5_Witness ==
    /\ pc = "synced"
    /\ \E i \in DOMAIN store.list : IntrusiveFilter(store.list[i], pass.at)
    /\ \E i \in DOMAIN store.list : RegularFilter(store.list[i], pass.at)

\* C6 as claimed: an intrusive weekly or monthly reminder has no intrusive
\* job after a full intrusive resync, whatever its timer.
C6_WeeklyMonthlyNeverRegistered ==
    IntrusivePassDone =>
        \A i \in DOMAIN pass.list :
            LET r == pass.list[i]
            IN  (r.isIntrusive /\ r.recurring \in {"weekly", "monthly"}) =>
                    ~\E a \in intJobs : a.uid = r.id

\* C6, amended: an intrusive weekly or monthly reminder is never registered
\* as a repeating alarm; it has an intrusive job after the resync exactly
\* when its timer is present and not before now, and that job is a one-shot
\* alarm at the timer's instant.
C6_WeeklyMonthlyAsOneShot ==
    IntrusivePassDone =>
        \A i \in DOMAIN pass.list :
            LET r == pass.list[i]
            IN  (r.isIntrusive /\ r.recurring \in {"weekly", "monthly"}) =>
                    /\ (\E a \in intJobs : a.uid = r.id)
                            <=> (r.timer # NoTimer /\ r.timer >= pass.at)
                    /\ \A a \in intJobs : a.uid = r.id =>
                            ~a.repeating /\ a.day = r.timer

\* an intrusive weekly reminder with a later timer went through a resync
C6_Witness ==
    /\ IntrusivePassDone
    /\ \E i \in DOMAIN pass.list :
        /\ pass.list[i].isIntrusive
        /\ pass.list[i].recurring = "weekly"
        /\ pass.list[i].timer > pass.at
        /\ \E a \in intJobs : a.uid = pass.list[i].id

\* C7: after a full intrusive resync with no backend failure and a steady
\* clock, an intrusive job with uid R.id is registered iff R is intrusive
\* and (daily, or its timer is present and not before now).
C7_IntrusiveJobsIffAdmitted ==
    IntrusivePassDone =>
        \A i \in DOMAIN pass.list :
            (\E a \in intJobs : a.uid = pass.list[i].id)
                <=> SpecIntrusiveAdmits(pass.list[i], pass.at)

\* a resync at the very instant of an intrusive one-off's timer, next to an
\* intrusive reminder without timer or recurrence
C7_Witness ==
    /\ IntrusivePassDone
    /\ \E i \in DOMAIN pass.list :
        /\ pass.list[i].isIntrusive /\ pass.list[i].recurring = "none"
        /\ pass.list[i].timer = pass.at
    /\ \E i \in DOMAIN pass.list :
        /\ pass.list[i].isIntrusive /\ pass.list[i].recurring = "none"
        /\ pass.list[i].timer = NoTimer

---------------------------------------------------------------------------
(* Properties of the app: init and the mutation handlers *)

Mutations == {"create", "edit", "delete"}

BackendSteps == {"cancel", "intrusive", "regular", "confirm"}

Bare(r) == r.recurring = "none" /\ ~HasTimer(r)

\* C8: a stored reminder with no recurrence and no timer is named by no
\* registered job of either channel, in every state of every run of init,
\* create, edit and delete, whatever its isIntrusive value.
C8_BareReminderHasNoJob ==
    \A i \in DOMAIN store.list :
        Bare(store.list[i]) =>
            /\ \A j \in DOMAIN regJobs : ~JobNames(regJobs[j], store.list[i].id)
            /\ \A a \in intJobs : a.uid # store.list[i].id

\* both resyncs of a handler have run over a list that holds an intrusive
\* reminder with no recurrence and no timer
C8_Witness ==
    /\ pc = "done"
    /\ act.outcome = "done"
    /\ pass.kind = "regular"
    /\ \E i \in DOMAIN store.list : Bare(store.list[i]) /\ store.list[i].isIntrusive

\* C9: in create, edit and delete no call to either backend (targeted
\* cancel, resync, confirmation) is made before the handler has written the
\* updated list to the store.
C9_NoBackendCallBeforePersist ==
    act.kind \in Mutations =>
        \A i \in DOMAIN log :
            log[i] \in BackendSteps => \E j \in 1..(i - 1) : log[j] = "write"

\* the list a mutation is to leave in the store, from the list it found
ExpectedList(a) ==
    IF a.kind = "delete"
    THEN SelectSeq(a.before, LAMBDA r : r.id # a.target.id)
    ELSE IF a.kind = "edit"
    THEN [i \in DOMAIN a.before |->
            IF a.before[i].id = a.target.id
            THEN Reminder(a.target.id, trim(a.input.message), a.input.selectedTime,
                          a.input.alarmType = "alarm",
                          IF a.input.reminderType = "one-off" THEN "none"
                          ELSE a.input.reminderType)
            ELSE a.before[i]]
    ELSE Append(a.before,
                Reminder(a.data.id, trim(a.input.message), a.input.selectedTime,
                         a.input.alarmType = "alarm",
                         IF a.input.reminderType = "one-off" THEN "none"
                         ELSE a.input.reminderType))

\* C10: when a create, edit or delete that passed validation has ended,
\* with or without a backend failure in its targeted cancel or its resyncs,
\* the list has been written and the stored list is exactly the list the
\* handler found with the mutation applied; and from the write to the end of
\* the handler the stored list stays that list.
C10_FailureLeavesPersistedList ==
    (act.kind \in Mutations /\ act.outcome # "rejected") =>
        /\ pc = "done" => (\E j \in DOMAIN log : log[j] = "write")
        /\ (\E j \in DOMAIN log : log[j] = "write") =>
                store = [present |-> TRUE, list |-> ExpectedList(act)]

\* a delete whose resync threw into the handler's catch block
C10_Witness ==
    /\ pc = "done"
    /\ act.kind = "delete"
    /\ act.faulted
    /\ act.outcome = "error"
    /\ store.list = ExpectedList(act)

---------------------------------------------------------------------------
(* Properties of delete and of the targeted cancel *)

\* the reminders of a list that are in the slot of reminder a and that the
\* regular partition admits at instant at
SlotOf(list, a, at) ==
    SelectSeq(list, LAMBDA r : SpecRegularAdmits(r, at) /\ SpecSlot(r) = SpecSlot(a))

\* the registered regular jobs that carry a reminder of the list found by
\* the handler that was in the slot of a
SlotJobs(a) ==
    {j \in DOMAIN regJobs :
        \E i \in DOMAIN act.before :
            /\ ~act.before[i].isIntrusive
            /\ SpecSlot(act.before[i]) = SpecSlot(a)
            /\ act.before[i].id \in Range(MemberIds(regJobs[j]))}

DeleteDone ==
    /\ pc = "done"
    /\ act.kind = "delete"
    /\ act.outcome = "done"
    /\ ~act.faulted

\* C11: when a delete of a regular reminder A has ended with no backend
\* failure, no job carries A's id; if other admitted reminders share A's
\* slot, exactly one job of that slot is registered and it carries exactly
\* their ids (only B's id when B is the one other member); if none does,
\* the slot has no job.
C11_DeleteLeavesSlotToTheRest ==
    (DeleteDone /\ ~act.target.isIntrusive) =>
        LET rest == SlotOf(store.list, act.target, pass.at)
        IN  /\ \A j \in DOMAIN regJobs : act.target.id \notin Range(MemberIds(regJobs[j]))
            /\ IF rest = <<>> THEN SlotJobs(act.target) = {}
               ELSE /\ Cardinality(SlotJobs(act.target)) = 1
                    /\ \A j \in SlotJobs(act.target) :
                            MemberIds(regJobs[j]) = [k \in DOMAIN rest |-> rest[k].id]

\* a delete of one of two daily reminders of a slot has ended: one single
\* job carries the other
C11_Witness ==
    /\ DeleteDone
    /\ Len(act.before) = 2
    /\ \A i \in DOMAIN act.before :
            ~act.before[i].isIntrusive /\ act.before[i].recurring = "daily"
                /\ ~HasTimer(act.before[i])
    /\ Len(store.list) = 1
    /\ Len(regJobs) = 1
    /\ regJobs[1].data.type = "single"
    /\ regJobs[1].data.reminderId = store.list[1].id

\* whether a job's metadata contains the id
Names(job, id) == job.data.reminderId = id \/ id \in Range(job.data.reminderIds)

\* s without the elements at the positions in gone, order kept
RECURSIVE Without(_, _, _)
Without(s, gone, i) ==
    IF i > Len(s) THEN <<>>
    ELSE IF i \in gone THEN Without(s, gone, i + 1)
    ELSE <<s[i]>> \o Without(s, gone, i + 1)

\* C12: a targeted cancel in the regular channel that does not fail removes
\* exactly the registered jobs whose metadata contains the id, registers
\* none, leaves the others and the intrusive channel as they were; the
\* other members of a cancelled job are carried by no job after it.
C12_TargetedCancelFrame ==
    [][(pc = "cancel" /\ ~act.target.isIntrusive /\ faults' = faults) =>
        LET gone == {j \in DOMAIN regJobs : Names(regJobs[j], act.target.id)}
        IN  /\ regJobs' = Without(regJobs, gone, 1)
            /\ intJobs' = intJobs
            /\ store' = store
            /\ \A j \in gone : \A b \in Range(MemberIds(regJobs[j])) :
                    \A k \in DOMAIN regJobs' : ~Names(regJobs'[k], b)]_vars

\* a delete has cancelled the consolidated job of two reminders: the one
\* that stays in the list has no job
C12_Witness ==
    /\ pc = "read"
    /\ act.kind = "delete"
    /\ log = <<"cancel">>
    /\ ~act.faulted
    /\ Len(store.list) = 2
    /\ \A i \in DOMAIN store.list :
            ~store.list[i].isIntrusive /\ store.list[i].recurring = "daily"
                /\ ~HasTimer(store.list[i])
    /\ regJobs = <<>>

---------------------------------------------------------------------------
(* Properties of the handlers' resyncs *)

\* the handler in flight is one that resyncs: a mutation that passed
\* validation, or init over a loaded list
Resyncing ==
    \/ act.kind \in Mutations /\ act.outcome # "rejected"
    \/ act.kind = "init" /\ store.present

Calls(step) == {i \in DOMAIN log : log[i] = step}

\* C13: a handler that resyncs invokes the intrusive resync and then the
\* regular resync, once each, one right after the other and over the same
\* list (the stored one); the regular resync follows also when the
\* intrusive one met a backend error, and none runs without the other.
C13_BothPartitionsResynced ==
    Resyncing =>
        /\ pc = "done" =>
                Cardinality(Calls("intrusive")) = 1 /\ Cardinality(Calls("regular")) = 1
        /\ \A i \in Calls("regular") : i > 1 /\ log[i - 1] = "intrusive"
        /\ \A i \in Calls("intrusive") :
                IF i = Len(log)
                THEN pc = "regular" /\ pass.kind = "intrusive" /\ pass.list = store.list
                ELSE log[i + 1] = "regular"
        /\ (log # <<>> /\ log[Len(log)] = "regular") =>
                pass.kind = "regular" /\ pass.list = store.list

\* a create of a one-off whose intrusive resync met a backend error and
\* whose regular resync then ran clean
C13_Witness ==
    /\ pc = "done"
    /\ act.kind = "create"
    /\ act.input.reminderType = "one-off"
    /\ act.faulted
    /\ pass.kind = "regular"
    /\ pass.clean
    /\ act.outcome = "done"

\* a unit of work of invocation u is in flight: it has started and has not
\* come to its end
InFlight(u) == act[u].outcome = "pending"

\* C14: at most one unit of work (init's resync, create, edit or delete) is
\* in flight at any time.
C14_OneUnitInFlight ==
    Cardinality({u \in Units : InFlight(u)}) <= 1

\* both calls have returned
RaceOver == pc = "race" /\ \A p \in Racers : act[p].stage = "end"

\* the jobs registered for the slot of a reminder: those that carry its id
JobsCarrying(id) == {j \in DOMAIN regJobs : id \in Range(MemberIds(regJobs[j]))}

\* the backend calls after the last cancel-all
AfterLastCancel ==
    {i \in DOMAIN log : \A k \in DOMAIN log : log[k].call = "cancelAll" => k < i}

\* C15: when two regular resyncs over the same list have interleaved at
\* their backend calls and both have returned, an admitted reminder's slot
\* has as many jobs as registrations of that slot came after the last
\* cancel-all: one or two, never none while no backend call fails; two jobs
\* for one slot is a reachable final state.
C15_RaceLeavesOneOrTwoJobs ==
    RaceOver =>
        \A i \in DOMAIN store.list :
            SpecRegularAdmits(store.list[i], now) =>
                LET registered ==
                        {k \in AfterLastCancel :
                            log[k].call = "register" /\ store.list[i].id \in log[k].ids}
                IN  /\ Cardinality(JobsCarrying(store.list[i].id)) = Cardinality(registered)
                    /\ Cardinality(JobsCarrying(store.list[i].id)) \in {1, 2}
                    /\ \A j \in JobsCarrying(store.list[i].id) :
                            MemberIds(regJobs[j]) =
                                [m \in DOMAIN SlotOf(store.list, store.list[i], now) |->
                                    SlotOf(store.list, store.list[i], now)[m].id]

\* both calls have returned and one slot has two registered jobs
C15_Witness ==
    /\ RaceOver
    /\ \E i \in DOMAIN store.list : Cardinality(JobsCarrying(store.list[i].id)) = 2

---------------------------------------------------------------------------
(* Properties of a resync whose backend calls fail *)

\* C16: in a full resync with a steady clock in which some registrations
\* throw, every admitted reminder whose registration did not throw has its
\* job, whether it comes before or after a failing one, and only the failing
\* ones have none.  A regular group's registration is the one of its first
\* member; an intrusive reminder has its own.
C16_FailedRegistrationSkipsOnlyItself ==
    (pc = "synced" /\ pass.steady /\ pass.failed # {}) =>
        \A i \in DOMAIN pass.list :
            LET r == pass.list[i]
            IN  /\ (pass.kind = "regular" /\ SpecRegularAdmits(r, pass.at)) =>
                        TimesCarried(regJobs, r.id) =
                            IF SlotMembers(pass.list, pass.at, i)[1].id \in pass.failed
                            THEN 0 ELSE 1
                /\ (pass.kind = "intrusive" /\ SpecIntrusiveAdmits(r, pass.at)) =>
                        ((\E a \in intJobs : a.uid = r.id) <=> r.id \notin pass.failed)

\* a regular resync over two slots: the first registration threw, the
\* second reminder has its job
C16_Witness ==
    /\ pc = "synced"
    /\ pass.kind = "regular"
    /\ pass.steady
    /\ Len(pass.list) = 2
    /\ pass.failed = {pass.list[1].id}
    /\ SpecRegularAdmits(pass.list[1], pass.at)
    /\ TimesCarried(regJobs, pass.list[1].id) = 0
    /\ TimesCarried(regJobs, pass.list[2].id) = 1

\* C17: in a full resync with a steady clock in which the listing or the
\* cancelling of the existing jobs throws (and no registration does), every
\* reminder the partition admits still has its job after the pass.
C17_CancelFailureStillRegisters ==
    (pc = "synced" /\ pass.steady /\ ~pass.clean /\ pass.failed = {}) =>
        \A i \in DOMAIN pass.list :
            LET r == pass.list[i]
            IN  /\ (pass.kind = "regular" /\ SpecRegularAdmits(r, pass.at)) =>
                        TimesCarried(regJobs, r.id) >= 1
                /\ (pass.kind = "intrusive" /\ SpecIntrusiveAdmits(r, pass.at)) =>
                        \E a \in intJobs : a.uid = r.id

---------------------------------------------------------------------------
(* Properties of the save action's outcome *)

\* a message that is empty or made of spaces only
Blank(m) == \A i \in DOMAIN m : m[i] = " "

\* C18: a save whose message is empty or whitespace-only is rejected before
\* any store or backend call: the step that starts it, and the return that
\* follows, leave the stored list and the jobs of both channels as they
\* were, and the action reports the rejection.  (The message is the one
\* validation of the handler; the modal always holds a time.)
C18_RejectedSaveChangesNothing ==
    [][/\ (pc = "idle" /\ act'.kind \in {"create", "edit"} /\ Blank(act'.input.message)) =>
            /\ act'.outcome = "rejected"
            /\ pc' = "done"
            /\ log' = <<>>
            /\ <<store, regJobs, intJobs>>' = <<store, regJobs, intJobs>>
       /\ act.outcome = "rejected" =>
            /\ pc' = "idle"
            /\ <<store, regJobs, intJobs>>' = <<store, regJobs, intJobs>>]_vars

\* an edit with a whitespace-only message was rejected; the list and the
\* jobs are there
C18_Witness ==
    /\ pc = "done"
    /\ act.kind = "edit"
    /\ act.outcome = "rejected"
    /\ act.input.message = <<" ">>
    /\ store.list # <<>>
    /\ regJobs # <<>>

\* C19: a save that passed validation and met a backend failure (in the
\* targeted cancel or in either resync) ends as a successful save, not as a
\* reported failure.
C19_BackendFailureNotSurfaced ==
    (pc = "done" /\ act.kind \in {"create", "edit"} /\ act.outcome # "rejected"
        /\ act.faulted) => act.outcome = "done"

\* the scheduled notifications that are confirmations
Confirmations(jobs) == {j \in DOMAIN jobs : jobs[j].data.type = "confirmation"}

\* C20: a step adds a confirmation job only as the confirmation step of a
\* create of a daily, weekly or monthly reminder, and the job names that
\* reminder; no step of an edit, a delete, init, the passing of time or the
\* create of a one-off adds one.
C20_ConfirmationOnlyOnRecurringCreate ==
    [][Cardinality(Confirmations(regJobs')) > Cardinality(Confirmations(regJobs)) =>
        /\ pc = "confirm"
        /\ act.kind = "create"
        /\ act.input.reminderType \in {"daily", "weekly", "monthly"}
        /\ regJobs'[Len(regJobs')].data.type = "confirmation"
        /\ regJobs'[Len(regJobs')].data.reminderId = act.data.id
        /\ \E i \in DOMAIN store.list :
                /\ store.list[i].id = act.data.id
                /\ store.list[i].recurring \in {"daily", "weekly", "monthly"}]_vars

\* a create of a daily reminder has scheduled its confirmation
C20_Witness ==
    /\ pc = "done"
    /\ act.kind = "create"
    /\ act.data.recurring = "daily"
    /\ log[Len(log)] = "confirm"
    /\ \E j \in Confirmations(regJobs) : regJobs[j].data.reminderId = act.data.id

\* C21: when the backend refuses the confirmation of a created recurring
\* reminder, the step leaves the jobs of both channels as the resync left
\* them, the reminder is in the stored list, and the handler ends as a
\* completed save.
C21_FailedConfirmationKeepsCreation ==
    [][(pc = "confirm" /\ faults' > faults) =>
        /\ act.kind = "create"
        /\ act.data.recurring \in {"daily", "weekly", "monthly"}
        /\ regJobs' = regJobs
        /\ intJobs' = intJobs
        /\ store' = store
        /\ \E i \in DOMAIN store.list : store.list[i] = act.data
        /\ pc' = "done"
        /\ act'.outcome = "done"]_vars

\* a create of a daily reminder ended after its confirmation was refused:
\* the reminder is stored and its daily job is registered
C21_Witness ==
    /\ pc = "done"
    /\ act.kind = "create"
    /\ act.data.recurring = "daily"
    /\ ~act.data.isIntrusive
    /\ log[Len(log)] = "confirm"
    /\ act.faulted
    /\ Confirmations(regJobs) = {}
    /\ act.outcome = "done"
    /\ \E i \in DOMAIN store.list : store.list[i] = act.data
    /\ \E j \in DOMAIN regJobs : JobNames(regJobs[j], act.data.id)

\* C22: a scheduled confirmation stays scheduled across every step during
\* which the clock does not move, a full regular resync included: it is
\* three seconds from firing and the clock of the model moves by minutes.
C22_ConfirmationSurvivesResync ==
    [][now' = now =>
        \A j \in Confirmations(regJobs) :
            \E k \in Confirmations(regJobs') : regJobs'[k] = regJobs[j]]_vars

---------------------------------------------------------------------------
(* Properties of the categorizer and of the tick *)

Buckets == {"recurring", "today", "upcoming", "past"}

\* the buckets whose list holds the reminder
BucketsHolding(categorized, reminder) ==
    {b \in Buckets : \E k \in DOMAIN categorized[b] : categorized[b][k] = reminder}

\* the place the rules give a reminder at the instant nw
Placement(reminder, nw) ==
    IF reminder.recurring # "none" THEN "recurring"
    ELSE IF reminder.timer = NoTimer THEN "today"
    ELSE IF DayOf(reminder.timer) < DayOf(nw) THEN "past"
    ELSE IF DayOf(reminder.timer) > DayOf(nw) THEN "upcoming"
    ELSE IF reminder.timer < nw THEN "past"
    ELSE "today"

\* a call of categorizeReminders has returned, and the clock read the
\* instant now all through it
Categorized == pc = "shown" /\ act.steady

\* C23: every reminder of the list is in exactly the bucket of the rules,
\* for the now of the call: recurring when it recurs, whatever its timer;
\* else today without a timer; else past on an earlier day, past or today
\* on the same day as its timer is before now or not, upcoming on a later
\* day.
C23_CategorizeFollowsTheRules ==
    Categorized =>
        \A i \in DOMAIN act.reminders :
            BucketsHolding(act.categorized, act.reminders[i])
                = {Placement(act.reminders[i], act.now)}

\* a call has placed a one-off of the same day, before now, in past and a
\* daily reminder with the same timer in recurring
C23_Witness ==
    /\ Categorized
    /\ \E k \in DOMAIN act.categorized.past :
        /\ DayOf(act.categorized.past[k].timer) = DayOf(act.now)
        /\ \E m \in DOMAIN act.categorized.recurring :
            act.categorized.recurring[m].timer = act.categorized.past[k].timer

\* C24: a one-off whose timer is the instant of the call is in today, and
\* in neither past nor upcoming.
C24_TimerAtNowIsToday ==
    Categorized =>
        \A i \in DOMAIN act.reminders :
            (act.reminders[i].recurring = "none" /\ act.reminders[i].timer = act.now) =>
                BucketsHolding(act.categorized, act.reminders[i]) = {"today"}

\* a call at 23:59 has placed a one-off with the timer 23:59 of that day
C24_Witness ==
    /\ Categorized
    /\ \E k \in DOMAIN act.categorized.today :
        /\ act.categorized.today[k].timer = act.now
        /\ act.categorized.today[k].recurring = "none"

\* the entries of a bucket as the forEach pushed them, which is their order
\* in the list, are the entries of the sorted bucket
SameEntries(sorted, pushed) ==
    /\ Len(sorted) = Len(pushed)
    /\ Range(sorted) = Range(pushed)

\* x stands before y in the list given to categorizeReminders
InputOrder(x, y) ==
    \E i, j \in DOMAIN act.reminders :
        i < j /\ act.reminders[i] = x /\ act.reminders[j] = y

\* C25: in the returned today, upcoming and recurring buckets an entry
\* without a timer never precedes one with a timer, the timers ascend, and
\* entries with equal timers, or both without one, are in their input
\* order; in the returned past bucket the timers descend.  Each bucket
\* holds the entries that were pushed to it.
C25_BucketsSorted ==
    pc = "shown" =>
        /\ \A b \in {"today", "upcoming", "recurring"} :
            LET s == act.categorized[b]
            IN  /\ SameEntries(s, act.unsorted[b])
                /\ \A k, m \in DOMAIN s : k < m =>
                    /\ HasTimer(s[m]) => HasTimer(s[k])
                    /\ (HasTimer(s[k]) /\ HasTimer(s[m])) => s[k].timer <= s[m].timer
                    /\ s[k].timer = s[m].timer => InputOrder(s[k], s[m])
        /\ SameEntries(act.categorized.past, act.unsorted.past)
        /\ \A k, m \in DOMAIN act.categorized.past : k < m =>
            act.categorized.past[k].timer >= act.categorized.past[m].timer

\* the recurring bucket was returned with a timed entry moved in front of
\* an entry without a timer that preceded it in the list
C25_Witness ==
    /\ pc = "shown"
    /\ Len(act.categorized.recurring) = 2
    /\ HasTimer(act.categorized.recurring[1])
    /\ ~HasTimer(act.categorized.recurring[2])
    /\ InputOrder(act.categorized.recurring[2], act.categorized.recurring[1])

\* C30: the step of the one-minute tick leaves the stored list, the
\* content of the in-memory list and the jobs of both channels as they
\* were, and what follows it is a call of the categorizer.
C30_TickOnlyRecategorizes ==
    [][act'.ticks > act.ticks =>
        /\ store' = store
        /\ act'.reminders = act.reminders
        /\ regJobs' = regJobs
        /\ intJobs' = intJobs
        /\ pc' = "render"]_vars

\* after a tick over midnight the categorizer has returned again: the
\* one-off of 23:59 has moved to past, and its job and its stored record
\* are there
C30_Witness ==
    /\ pc = "shown"
    /\ act.ticks = 1
    /\ store.list = act.reminders
    /\ \E k \in DOMAIN act.categorized.past :
        /\ act.categorized.past[k].timer = At(9, 23, 59)
        /\ \E j \in DOMAIN regJobs : JobNames(regJobs[j], act.categorized.past[k].id)

---------------------------------------------------------------------------
(* Properties of the grouping *)

\* the recurring part of a grouping result
RecurringGroups(groups) == <<groups.daily, groups.weekly, groups.monthly>>

\* C26 as stated: any two calls of group on the same list return the same
\* keys and the same members in the same order in all four buckets.
C26_GroupTwiceSame ==
    \A a, b \in DOMAIN log : log[a].groups = log[b].groups

\* C26 as the code has it: any two calls on the same list return the same
\* daily, weekly and monthly buckets, keys and members in order, and the
\* same one-time bucket when the clock read the same instants in both
\* calls; the one-time bucket of the later call holds no key and no member
\* that the earlier one's did not hold, and lacks the one-offs whose
\* instant the clock has reached in between.
C26_GroupTwiceSameButExpiry ==
    \A a, b \in DOMAIN log :
        /\ RecurringGroups(log[a].groups) = RecurringGroups(log[b].groups)
        /\ log[a].clocks = log[b].clocks => log[a].groups = log[b].groups
        /\ a < b =>
            \A k \in DOMAIN log[b].groups.oneTime :
                \E m \in DOMAIN log[a].groups.oneTime :
                    /\ log[a].groups.oneTime[m].key = log[b].groups.oneTime[k].key
                    /\ Range(log[b].groups.oneTime[k].members)
                            \subseteq Range(log[a].groups.oneTime[m].members)

\* two calls at the same instant have returned the same grouping, with a
\* one-off in its one-time bucket and a recurring group next to it
C26_Witness ==
    /\ Len(log) >= 2
    /\ log[1].clocks = log[2].clocks
    /\ log[1].groups = log[2].groups
    /\ log[1].groups.oneTime # <<>>
    /\ RecurringGroups(log[1].groups) # <<<<>>, <<>>, <<>>>>

\* the keys of the daily groups that hold the reminder
DailyKeysOf(groups, reminder) ==
    {groups.daily[k].key : k \in {i \in DOMAIN groups.daily :
        \E m \in DOMAIN groups.daily[i].members : groups.daily[i].members[m] = reminder}}

\* C27: every daily reminder with a timer is in one daily group, the one
\* keyed by the local hour and minute of its timer, so that two of them
\* share a group exactly when their timers have the same hour and minute,
\* on whatever dates; no two daily groups have the same key.
C27_DailyGroupedByHourMinute ==
    \A c \in DOMAIN log :
        LET groups == log[c].groups
        IN  /\ \A k, m \in DOMAIN groups.daily :
                groups.daily[k].key = groups.daily[m].key => k = m
            /\ \A i \in DOMAIN act.reminders :
                LET r == act.reminders[i]
                IN  (r.recurring = "daily" /\ HasTimer(r)) =>
                        DailyKeysOf(groups, r) = {<<getHours(r.timer), getMinutes(r.timer)>>}
            /\ \A i, j \in DOMAIN act.reminders :
                LET r == act.reminders[i]
                    q == act.reminders[j]
                IN  (r.recurring = "daily" /\ q.recurring = "daily"
                        /\ HasTimer(r) /\ HasTimer(q)) =>
                    (DailyKeysOf(groups, r) = DailyKeysOf(groups, q)
                        <=> /\ getHours(r.timer) = getHours(q.timer)
                            /\ getMinutes(r.timer) = getMinutes(q.timer))

\* two daily reminders at 08:30 on different dates are the two members of
\* the daily group keyed 8:30
C27_Witness ==
    /\ log # <<>>
    /\ \E k \in DOMAIN log[1].groups.daily :
        /\ log[1].groups.daily[k].key = <<8, 30>>
        /\ Len(log[1].groups.daily[k].members) = 2
        /\ DayOf(log[1].groups.daily[k].members[1].timer)
                # DayOf(log[1].groups.daily[k].members[2].timer)

\* the keys of the groups of a bucket that hold the reminder
KeysHolding(bucket, reminder) ==
    {bucket[k].key : k \in {i \in DOMAIN bucket :
        \E m \in DOMAIN bucket[i].members : bucket[i].members[m] = reminder}}

\* the triggers of the scheduled notifications that name the reminder
TriggersNaming(jobs, id) ==
    {jobs[j].trigger : j \in {i \in DOMAIN jobs : JobNames(jobs[i], id)}}

\* the default slots: 09:00 every day, Sunday 09:00 (day 0 of getDay, day 1
\* of the backend's week), the 1st at 09:00
DefaultKey(recurring) ==
    IF recurring = "daily" THEN <<9, 0>>
    ELSE IF recurring = "weekly" THEN <<0, 9, 0>>
    ELSE <<1, 9, 0>>

DefaultTrigger(recurring) ==
    [type |-> recurring, hour |-> 9, minute |-> 0,
     weekday |-> IF recurring = "weekly" THEN 1 ELSE 0,
     day |-> IF recurring = "monthly" THEN 1 ELSE 0, date |-> 0, seconds |-> 0]

\* C28: a daily, weekly or monthly reminder without a timer is grouped
\* under the default key of its recurrence by every call, whatever the day
\* and time of the call (a Sunday, a Tuesday, a Saturday), and once the
\* groups are registered the one job that names it has the default trigger.
C28_TimerlessRecurringUsesDefaults ==
    \A i \in DOMAIN act.reminders :
        LET r == act.reminders[i]
        IN  (r.recurring # "none" /\ ~HasTimer(r)) =>
                /\ \A c \in DOMAIN log :
                    KeysHolding(log[c].groups[r.recurring], r) = {DefaultKey(r.recurring)}
                /\ (pc = "group" /\ log # <<>>) =>
                    TriggersNaming(regJobs, r.id) = {DefaultTrigger(r.recurring)}

\* a call on a Saturday has grouped a weekly and a monthly reminder without
\* timers, and their jobs are registered
C28_Witness ==
    /\ pc = "group"
    /\ log # <<>>
    /\ getDay(log[Len(log)].clocks[1]) = 6
    /\ \E i, j \in DOMAIN act.reminders :
        /\ act.reminders[i].recurring = "weekly" /\ ~HasTimer(act.reminders[i])
        /\ act.reminders[j].recurring = "monthly" /\ ~HasTimer(act.reminders[j])
        /\ TriggersNaming(regJobs, act.reminders[i].id) # {}
        /\ TriggersNaming(regJobs, act.reminders[j].id) # {}

---------------------------------------------------------------------------
(* Properties of the expiry of one-offs *)

\* the one-time jobs a step has added
AddedOneTime == {j \in DOMAIN regJobs' \ DOMAIN regJobs : regJobs'[j].trigger.type = "date"}

\* C29: a step adds a one-time job only as the registration of a group,
\* and the instant of the job is after the clock value read at that
\* registration, however the clock moved since the filter and the grouping
\* admitted the reminder; a group whose instant the clock has reached is
\* passed over, the jobs stay as they were and the loop goes on to the next
\* group.
C29_NoOneTimeJobAtOrBeforeNow ==
    [][/\ \A j \in AddedOneTime : pc = "register" /\ regJobs'[j].trigger.date > now'
       /\ pc = "register" =>
            /\ act'.next = act.next + 1
            /\ pc' \in {"register", "synced"}
            /\ (/\ act.glist[act.next].type = "oneTime"
                /\ parseISO(act.glist[act.next].key) <= now') => regJobs' = regJobs]_vars

\* a resync has ended whose filter and grouping admitted two one-offs: the
\* first had expired when its registration read the clock and has no job,
\* the second was registered after it
C29_Witness ==
    /\ pc = "synced"
    /\ Len(act.glist) = 2
    /\ act.glist[1].type = "oneTime"
    /\ act.glist[2].type = "oneTime"
    /\ Len(regJobs) = 1
    /\ regJobs[1].trigger.date = parseISO(act.glist[2].key)

---------------------------------------------------------------------------
(* Properties of the mutations' effect on the stored list *)

\* the handler in flight has written the list
Written == act.kind \in Mutations /\ \E j \in DOMAIN log : log[j] = "write"

\* C31: once a create, edit or delete has written, the stored list differs
\* from the list the handler read at the targeted record only.  A create
\* has appended one record whose id no record had; an edit has kept the
\* length and every record with another id in its place, and the record in
\* the place of the edited one has its id and its createdAt; a delete has
\* left no record with the deleted id and all others in their order.
C31_MutationTouchesTargetOnly ==
    Written =>
        /\ act.kind = "create" =>
            /\ Len(store.list) = Len(act.before) + 1
            /\ SubSeq(store.list, 1, Len(act.before)) = act.before
            /\ store.list[Len(store.list)].id \notin IdsOf(act.before)
        /\ act.kind = "edit" =>
            /\ Len(store.list) = Len(act.before)
            /\ \A i \in DOMAIN act.before :
                IF act.before[i].id = act.target.id
                THEN /\ store.list[i].id = act.before[i].id
                     /\ store.list[i].createdAt = act.before[i].createdAt
                ELSE store.list[i] = act.before[i]
        /\ act.kind = "delete" =>
            /\ act.target.id \notin IdsOf(store.list)
            /\ store.list = SelectSeq(act.before, LAMBDA r : r.id # act.target.id)
            /\ Len(store.list) = Len(act.before) - 1

\* an edit of the first of two records has ended at a later minute than
\* the record was created: the record is in its place with the new message
\* and a new updatedAt, and the second record is as it was
C31_Witness ==
    /\ pc = "done"
    /\ act.kind = "edit"
    /\ Len(act.before) = 2
    /\ act.target.id = act.before[1].id
    /\ store.list[1].message = <<"b">>
    /\ store.list[1].updatedAt > store.list[1].createdAt
    /\ store.list[2] = act.before[2]

---------------------------------------------------------------------------
(* Properties of the two channels together *)

\* C32: the resync and the targeted cancel of the intrusive channel leave
\* the scheduled notifications as they were, and the resync and the
\* targeted cancel of the regular channel leave the alarms as they were.
C32_ChannelsShareNoJobs ==
    [][/\ (pc = "intrusive" \/ (pc = "cancel" /\ act.target.isIntrusive)) =>
            regJobs' = regJobs
       /\ (pc = "regular" \/ (pc = "cancel" /\ ~act.target.isIntrusive)) =>
            intJobs' = intJobs]_vars

\* the intrusive resync of a handler has run while notifications were
\* scheduled, and alarms are registered
C32_Witness ==
    /\ pc = "regular"
    /\ pass.kind = "intrusive"
    /\ regJobs # <<>>
    /\ intJobs # {}

\* C33: after a full intrusive resync with no backend failure and a steady
\* clock, two admitted intrusive reminders of one recurrence slot are
\* registered as one alarm between them, not as one alarm each.
C33_IntrusiveSlotIsOneJob ==
    IntrusivePassDone =>
        \A i, j \in DOMAIN pass.list :
            (/\ i # j
             /\ SpecIntrusiveAdmits(pass.list[i], pass.at)
             /\ SpecIntrusiveAdmits(pass.list[j], pass.at)
             /\ pass.list[i].recurring = "daily"
             /\ SpecSlot(pass.list[i]) = SpecSlot(pass.list[j])) =>
                Cardinality({a \in intJobs : a.uid \in {pass.list[i].id, pass.list[j].id}}) = 1

---------------------------------------------------------------------------
(* Properties of the one-time groups *)

\* C34: two one-offs that a call of group has both placed are in the same
\* one-time group exactly when their timers are in the same second.
C34_OneTimeGroupedToTheSecond ==
    \A c \in DOMAIN log :
        \A i, j \in DOMAIN act.reminders :
            LET r == act.reminders[i]
                q == act.reminders[j]
                held == KeysHolding(log[c].groups.oneTime, r)
                other == KeysHolding(log[c].groups.oneTime, q)
            IN  (r.recurring = "none" /\ q.recurring = "none" /\ held # {} /\ other # {}) =>
                    (held = other <=> r.timer \div 1000 = q.timer \div 1000)

---------------------------------------------------------------------------
(* Properties of the categorizer's result as a whole *)

\* the places of a reminder in the four buckets
PlacesOf(categorized, reminder) ==
    {p \in Buckets \X (1..Len(act.reminders)) :
        /\ p[2] \in DOMAIN categorized[p[1]]
        /\ categorized[p[1]][p[2]] = reminder}

\* C35: the result of every call of categorizeReminders, whatever the clock
\* did during it, holds each reminder of the list at exactly one place of
\* one bucket, and holds nothing that is not in the list.
C35_CategorizeIsAPartition ==
    pc = "shown" =>
        /\ \A i \in DOMAIN act.reminders :
            Cardinality(PlacesOf(act.categorized, act.reminders[i])) = 1
        /\ \A b \in Buckets :
            /\ Len(act.categorized[b]) <= Len(act.reminders)
            /\ Range(act.categorized[b]) \subseteq Range(act.reminders)

\* a call has returned two reminders in two buckets
C35_Witness ==
    /\ pc = "shown"
    /\ Len(act.reminders) = 2
    /\ Len(act.categorized.recurring) = 1
    /\ Len(act.categorized.past) = 1

---------------------------------------------------------------------------
(* Properties of the jobs after completed mutations *)

\* init or a mutation has run to its end, or the app is idle after it, and
\* no backend call has failed so far
Settled ==
    /\ faults = 0
    /\ \/ pc = "idle"
       \/ pc = "done" /\ act.outcome = "done"

\* C36: when the handlers so far have run to their end one after the other
\* with no backend failure, every scheduled notification but a
\* confirmation names stored reminders only, and those are not intrusive;
\* every alarm has the id of a stored reminder that is intrusive.  So the
\* id of a stored reminder is in the channel of its isIntrusive value only,
\* also after an edit has changed that value.
C36_JobsNameStoredRemindersOfTheirChannel ==
    Settled =>
        /\ \A j \in DOMAIN regJobs \ Confirmations(regJobs) :
            \A id \in Range(MemberIds(regJobs[j])) :
                \E i \in DOMAIN store.list :
                    store.list[i].id = id /\ ~store.list[i].isIntrusive
        /\ \A a \in intJobs :
            \E i \in DOMAIN store.list :
                store.list[i].id = a.uid /\ store.list[i].isIntrusive

\* an edit that made a daily reminder intrusive has ended: its alarm is
\* registered
C36_Witness ==
    /\ Settled
    /\ pc = "done"
    /\ act.kind = "edit"
    /\ ~act.target.isIntrusive
    /\ act.data.isIntrusive
    /\ act.data.recurring = "daily"
    /\ \E a \in intJobs : a.uid = act.data.id

---------------------------------------------------------------------------
(* Properties of overlapping mutations *)

\* C37: the store write of a create loses no record: every id stored before
\* it is stored after it, also when another create has written between this
\* create's read and its write.
C37_NoLostUpdate ==
    [][\A u \in Units :
        (pc[u] = "write" /\ pc'[u] # "write" /\ act[u].kind = "create") =>
            IdsOf(store.list) \subseteq IdsOf(store'.list)]_vars

---------------------------------------------------------------------------
(* Properties of the daily intrusive alarm *)

\* C38: the alarm scheduleIntrusiveAlarm registers for an intrusive daily
\* reminder is a repeating one whose day is on the calendar day after the
\* day of the call, never on the day of the call: at the hour and minute of
\* the timer, also when that time of day was still ahead at the call, and
\* without a timer at the time of day of the call.
C38_DailyAlarmStartsTomorrow ==
    (pc = "scheduled" /\ act.reminder.isIntrusive /\ act.reminder.recurring = "daily") =>
        /\ Cardinality(intJobs) = 1
        /\ \A a \in intJobs :
            /\ a.uid = act.reminder.id
            /\ a.repeating
            /\ DayOf(a.day) = DayOf(act.at) + 1
            /\ IF HasTimer(act.reminder)
               THEN /\ getHours(a.day) = getHours(act.reminder.timer)
                    /\ getMinutes(a.day) = getMinutes(act.reminder.timer)
               ELSE a.day = act.at + 86400000

\* a daily alarm for 23:00 was registered at 10:00: its day is 23:00 of the
\* next day
C38_Witness ==
    /\ pc = "scheduled"
    /\ act.at = At(9, 10, 0)
    /\ act.reminder.recurring = "daily"
    /\ \E a \in intJobs : a.day = At(10, 23, 0) /\ a.repeating

=============================================================================
